---- MODULE Spec2Model ----
(***************************************************************************)
(* A model of cave.c (fruviad/angband): the line-of-sight predicate, the   *)
(* field-of-view update, room lighting and the monster flow field over one *)
(* level ("chunk").  A cell is the pair <<y, x>>.                           *)
(***************************************************************************)
EXTENDS Integers, Sequences, FiniteSets, TLC

(* ------------------------------------------------------------------ *)
(* Bounds of the model                                                *)
(* ------------------------------------------------------------------ *)

\* c->height and c->width of the one level that is modelled
Height == 5
Width == 5

\* a terrain layout a run starts from has one straight wall of at most this length
MaxWalls == 2

\* MONSTER_FLOW_DEPTH, scaled down to the size of the level
MONSTER_FLOW_DEPTH == 3

\* a run makes at most this many cave_update_flow calls
MaxFlowCalls == 4

\* a run may start with flow_save this close to the end of its range
WrapLead == 2

\* Size of the circular queue used by cave_update_flow
FLOW_MAX == 2048

\* MAX_SIGHT, scaled down to the size of the level
MAX_SIGHT == 3

\* the largest torch radius (player->state.cur_light) a run starts with
MaxLight == 1

\* the number of monster slots in use (c->monsters[1 .. MaxMonsters])
MaxMonsters == 1

\* the number of objects in the pile that lies on the level
MaxObjects == 2

\* FEELING1, scaled down: the number of feeling squares that triggers the announcement
FEELING1 == 2

\* the room of a level spans the inner columns 1 .. RoomEdge
RoomEdge == 2

VARIABLES
    feat,              \* c->feat[y][x]: terrain id of every cell
    feat_count,        \* c->feat_count[]: number of cells of every terrain id
    info,              \* c->info[y][x]: the flag set of every cell
    py, px,            \* player->py, player->px
    cur_light,         \* player->state.cur_light
    blind,             \* player->timed[TMD_BLIND] != 0
    monsters,          \* c->monsters[1 .. m_max-1]
    objects,           \* the objects lying on the floor of the level
    feeling_squares,   \* c->feeling_squares
    feeling_shown,     \* number of display_feeling(TRUE) calls
    redraw,            \* cells signalled by square_light_spot in the last operation
    cost,              \* c->cost[y][x]
    when,              \* c->when[y][x]
    flow_save,         \* static int flow_save
    last,              \* the last operation called, its arguments and its result
    rt,                \* the flags of the level before the call that last is the end of;
                       \* for update_view, o is the feeling counter and the number of
                       \* announcements before the call
    aborted,           \* an assert() of the grid accessors has failed
    flow_hist          \* the cave_update_flow calls made so far, and what the first one left

vars == <<feat, feat_count, info, py, px, cur_light, blind, monsters, objects, feeling_squares,
          feeling_shown, redraw, cost, when, flow_save, last, rt, aborted, flow_hist>>

Cells == (0 .. Height - 1) \X (0 .. Width - 1)

ABS(n) == IF n < 0 THEN -n ELSE n

(* ------------------------------------------------------------------ *)
(* Terrain catalogue and grid predicates                              *)
(* ------------------------------------------------------------------ *)

\* f_info[]: the terrain flags the engine reads, for the terrain ids used here
f_info ==
    [f \in {"NONE", "FLOOR", "GRANITE", "LESS", "DOOR"} |->
        CASE f = "NONE"    -> {}
          [] f = "FLOOR"   -> {"PROJECT"}
          [] f = "GRANITE" -> {"NO_FLOW"}
          [] f = "LESS"    -> {"PROJECT", "INTERESTING"}
          [] f = "DOOR"    -> {"INTERESTING"}]

\* c->feat_count[] as the square_set_feat() calls that laid out the terrain ft
\* leave it
CountFeat(ft) == [f \in DOMAIN f_info |-> Cardinality({c \in Cells : ft[c] = f})]

square_in_bounds(y, x) == x >= 0 /\ x < Width /\ y >= 0 /\ y < Height

square_in_bounds_fully(y, x) == x > 0 /\ x < Width - 1 /\ y > 0 /\ y < Height - 1

square_isprojectable(ft, y, x) == "PROJECT" \in f_info[ft[<<y, x>>]]

square_iswall(ft, y, x) == ~square_isprojectable(ft, y, x)

square_isinteresting(ft, y, x) == "INTERESTING" \in f_info[ft[<<y, x>>]]

\* distance(): max(dy,dx) + min(dy,dx) / 2
distance(y1, x1, y2, x2) ==
    LET ay == ABS(y2 - y1)
        ax == ABS(x2 - x1)
    IN  IF ay > ax THEN ay + (ax \div 2) ELSE ax + (ay \div 2)

(* ------------------------------------------------------------------ *)
(* los()                                                              *)
(* ------------------------------------------------------------------ *)

\* mutant: the first intermediate cell of an orthogonal line is skipped
los_orth_skipfirst(ft, y1, x1, y2, x2) ==
    LET dy == y2 - y1
        dx == x2 - x1
    IN  IF dx = 0
        THEN IF dy > 0
             THEN \A ty \in (y1 + 2) .. (y2 - 1) : square_isprojectable(ft, ty, x1)
             ELSE \A ty \in (y2 + 1) .. (y1 - 2) : square_isprojectable(ft, ty, x1)
        ELSE IF dx > 0
             THEN \A tx \in (x1 + 2) .. (x2 - 1) : square_isprojectable(ft, y1, tx)
             ELSE \A tx \in (x2 + 1) .. (x1 - 2) : square_isprojectable(ft, y1, tx)

\* mutant: the loops along a row or a column run up to the target grid
los_orth_inclusive(ft, y1, x1, y2, x2) ==
    LET dy == y2 - y1
        dx == x2 - x1
    IN  IF dx = 0
        THEN IF dy > 0
             THEN \A ty \in (y1 + 1) .. y2 : square_isprojectable(ft, ty, x1)
             ELSE \A ty \in y2 .. (y1 - 1) : square_isprojectable(ft, ty, x1)
        ELSE IF dx > 0
             THEN \A tx \in (x1 + 1) .. x2 : square_isprojectable(ft, y1, tx)
             ELSE \A tx \in x2 .. (x1 - 1) : square_isprojectable(ft, y1, tx)

\* "Directly South/North" and "Directly East/West": called with dx = 0 or dy = 0
los_orth(ft, y1, x1, y2, x2) ==
    LET dy == y2 - y1
        dx == x2 - x1
    IN  IF dx = 0
        THEN IF dy > 0
             THEN \A ty \in (y1 + 1) .. (y2 - 1) : square_isprojectable(ft, ty, x1)
             ELSE \A ty \in (y2 + 1) .. (y1 - 1) : square_isprojectable(ft, ty, x1)
        ELSE IF dx > 0
             THEN \A tx \in (x1 + 1) .. (x2 - 1) : square_isprojectable(ft, y1, tx)
             ELSE \A tx \in (x2 + 1) .. (x1 - 1) : square_isprojectable(ft, y1, tx)

\* mutant: the knight's-move rule looks at the cell next to the target
los_knight_target(ft, y1, x1, y2, x2) ==
    LET dy == y2 - y1
        dx == x2 - x1
        ay == ABS(dy)
        ax == ABS(dx)
        sx == IF dx < 0 THEN -1 ELSE 1
        sy == IF dy < 0 THEN -1 ELSE 1
    IN  IF ax = 1
        THEN ay = 2 /\ square_isprojectable(ft, y2 - sy, x2)
        ELSE IF ay = 1
             THEN ax = 2 /\ square_isprojectable(ft, y2, x2 - sx)
             ELSE FALSE

\* Vertical and horizontal "knights": TRUE when the rule returns TRUE at once
los_knight(ft, y1, x1, y2, x2) ==
    LET dy == y2 - y1
        dx == x2 - x1
        ay == ABS(dy)
        ax == ABS(dx)
        sx == IF dx < 0 THEN -1 ELSE 1
        sy == IF dy < 0 THEN -1 ELSE 1
    IN  IF ax = 1
        THEN ay = 2 /\ square_isprojectable(ft, y1 + sy, x1)
        ELSE IF ay = 1
             THEN ax = 2 /\ square_isprojectable(ft, y1, x1 + sx)
             ELSE FALSE

RECURSIVE los_walk_x_corner(_, _, _, _, _, _, _, _, _, _)
\* mutant: a line through a tile corner also tests the cell it brushes
los_walk_x_corner(ft, ty, tx, qy, x2, sx, sy, m, f1, f2) ==
    IF x2 - tx = 0 THEN TRUE
    ELSE IF ~square_isprojectable(ft, ty, tx) THEN FALSE
    ELSE LET q == qy + m
         IN  IF q < f2
             THEN los_walk_x_corner(ft, ty, tx + sx, q, x2, sx, sy, m, f1, f2)
             ELSE IF ~square_isprojectable(ft, ty + sy, tx) THEN FALSE
                  ELSE los_walk_x_corner(ft, ty + sy, tx + sx, q - f1, x2, sx, sy, m, f1, f2)

RECURSIVE los_walk_x(_, _, _, _, _, _, _, _, _, _)
\* "Travel horizontally": the while (x2 - tx) loop
los_walk_x(ft, ty, tx, qy, x2, sx, sy, m, f1, f2) ==
    IF x2 - tx = 0 THEN TRUE
    ELSE IF ~square_isprojectable(ft, ty, tx) THEN FALSE
    ELSE LET q == qy + m
         IN  IF q < f2
             THEN los_walk_x(ft, ty, tx + sx, q, x2, sx, sy, m, f1, f2)
             ELSE IF q > f2
                  THEN IF ~square_isprojectable(ft, ty + sy, tx) THEN FALSE
                       ELSE los_walk_x(ft, ty + sy, tx + sx, q - f1, x2, sx, sy, m, f1, f2)
                  ELSE los_walk_x(ft, ty + sy, tx + sx, q - f1, x2, sx, sy, m, f1, f2)

RECURSIVE los_walk_y(_, _, _, _, _, _, _, _, _, _)
\* "Travel vertically": the while (y2 - ty) loop
los_walk_y(ft, ty, tx, qx, y2, sx, sy, m, f1, f2) ==
    IF y2 - ty = 0 THEN TRUE
    ELSE IF ~square_isprojectable(ft, ty, tx) THEN FALSE
    ELSE LET q == qx + m
         IN  IF q < f2
             THEN los_walk_y(ft, ty + sy, tx, q, y2, sx, sy, m, f1, f2)
             ELSE IF q > f2
                  THEN IF ~square_isprojectable(ft, ty, tx + sx) THEN FALSE
                       ELSE los_walk_y(ft, ty + sy, tx + sx, q - f1, y2, sx, sy, m, f1, f2)
                  ELSE los_walk_y(ft, ty + sy, tx + sx, q - f1, y2, sx, sy, m, f1, f2)

\* mutant: the walk has no special case for slope 1
los_walk_noslope(ft, y1, x1, y2, x2) ==
    LET dy == y2 - y1
        dx == x2 - x1
        ay == ABS(dy)
        ax == ABS(dx)
        sx == IF dx < 0 THEN -1 ELSE 1
        sy == IF dy < 0 THEN -1 ELSE 1
        f2 == ax * ay
        f1 == f2 * 2
    IN  IF ax >= ay
        THEN los_walk_x(ft, y1, x1 + sx, ay * ay, x2, sx, sy, (ay * ay) * 2, f1, f2)
        ELSE los_walk_y(ft, y1 + sy, x1, ax * ax, y2, sx, sy, (ax * ax) * 2, f1, f2)

\* the scale factors and the start of the walk along the longer axis
los_walk(ft, y1, x1, y2, x2) ==
    LET dy == y2 - y1
        dx == x2 - x1
        ay == ABS(dy)
        ax == ABS(dx)
        sx == IF dx < 0 THEN -1 ELSE 1
        sy == IF dy < 0 THEN -1 ELSE 1
        f2 == ax * ay
        f1 == f2 * 2
    IN  IF ax >= ay
        THEN LET qy == ay * ay
                 m == qy * 2
             IN  IF qy = f2
                 THEN los_walk_x(ft, y1 + sy, x1 + sx, qy - f1, x2, sx, sy, m, f1, f2)
                 ELSE los_walk_x(ft, y1, x1 + sx, qy, x2, sx, sy, m, f1, f2)
        ELSE LET qx == ax * ax
                 m == qx * 2
             IN  IF qx = f2
                 THEN los_walk_y(ft, y1 + sy, x1 + sx, qx - f1, y2, sx, sy, m, f1, f2)
                 ELSE los_walk_y(ft, y1 + sy, x1, qx, y2, sx, sy, m, f1, f2)

\* mutant: no shortcut for adjacent grids, and the target grid itself must be open
los_target_open(ft, y1, x1, y2, x2) ==
    /\ square_isprojectable(ft, y2, x2)
    /\ IF x2 = x1 \/ y2 = y1
       THEN los_orth(ft, y1, x1, y2, x2)
       ELSE los_knight(ft, y1, x1, y2, x2) \/ los_walk(ft, y1, x1, y2, x2)

los(ft, y1, x1, y2, x2) ==
    IF ABS(x2 - x1) < 2 /\ ABS(y2 - y1) < 2 THEN TRUE
    ELSE IF x2 = x1 \/ y2 = y1
         THEN los_orth(ft, y1, x1, y2, x2)
         ELSE los_knight(ft, y1, x1, y2, x2) \/ los_walk(ft, y1, x1, y2, x2)

(* ------------------------------------------------------------------ *)
(* The level after cave_new(), and the layouts the runs start from    *)
(* ------------------------------------------------------------------ *)

NoOp == [op |-> "none", a |-> <<0, 0>>, b |-> <<0, 0>>, ret |-> FALSE]

\* mem_zalloc'ed monster slot: no race, position 0,0
NoMonster == [race |-> "none", fy |-> 0, fx |-> 0, has_light |-> FALSE, asleep |-> FALSE]

NoRoundTrip == [phase |-> "none", o |-> <<0, 0>>, info |-> <<>>, pts |-> {}, lit |-> {}]

NoFlowHist == [calls |-> 0, wrapped |-> FALSE, first |-> <<>>]

\* every cell floor, except the cells of ws, which get the terrain f
Layout(ws, f) == [c \in Cells |-> IF c \in ws THEN f ELSE "FLOOR"]

\* the empty set, and every horizontal or vertical run of 1 .. n cells
WallSets(n) ==
    {{}} \cup
    {{c \in Cells : c[1] = a[1] /\ a[2] <= c[2] /\ c[2] < a[2] + k} : a \in Cells, k \in 1 .. n} \cup
    {{c \in Cells : c[2] = a[2] /\ a[1] <= c[1] /\ c[1] < a[1] + k} : a \in Cells, k \in 1 .. n}

\* what cave_new() leaves, apart from the terrain and the flags: no cost, no stamp
FreshRest ==
    /\ cost = [c \in Cells |-> 0]
    /\ when = [c \in Cells |-> 0]
    /\ feeling_squares = 0
    /\ feeling_shown = 0
    /\ redraw = {}
    /\ last = NoOp
    /\ rt = NoRoundTrip
    /\ aborted = FALSE
    /\ flow_hist = NoFlowHist

\* cave_new(): no flag on any cell
FreshLevel ==
    /\ info = [c \in Cells |-> {}]
    /\ FreshRest

(* ------------------------------------------------------------------ *)
(* Line-of-sight runs: one los() call per step on a fixed layout      *)
(* ------------------------------------------------------------------ *)

InitLos ==
    /\ FreshLevel
    /\ \E ws \in WallSets(MaxWalls) : feat = Layout(ws, "GRANITE")
    /\ flow_save = 0
    /\ py = 1 /\ px = 1
    /\ cur_light = 0
    /\ blind = FALSE
    /\ monsters = <<>>
    /\ objects = <<>>
    /\ feat_count = CountFeat(feat)

\* one los() call, made on the level as it was set up
LosCall(a, b) ==
    /\ last.op = "none"
    /\ last' = [op |-> "los", a |-> a, b |-> b, ret |-> los(feat, a[1], a[2], b[1], b[2])]
    /\ UNCHANGED <<feat, feat_count, info, py, px, cur_light, blind, monsters, objects,
                   feeling_squares, feeling_shown, redraw, cost, when, flow_save,
                   rt, aborted, flow_hist>>

NextLos == \E a \in Cells, b \in Cells : LosCall(a, b)

SpecLos == InitLos /\ [][NextLos]_vars

DY(a, b) == ABS(b[1] - a[1])
DX(a, b) == ABS(b[2] - a[2])

KnightMove(a, b) == (DX(a, b) = 1 /\ DY(a, b) = 2) \/ (DX(a, b) = 2 /\ DY(a, b) = 1)

\* the cells strictly between two cells of one row or one column
Between(a, b) ==
    {c \in Cells :
        \/ /\ a[2] = b[2] /\ c[2] = a[2]
           /\ (a[1] < c[1] /\ c[1] < b[1]) \/ (b[1] < c[1] /\ c[1] < a[1])
        \/ /\ a[1] = b[1] /\ c[1] = a[1]
           /\ (a[2] < c[2] /\ c[2] < b[2]) \/ (b[2] < c[2] /\ c[2] < a[2])}

\* the cell next to a along the larger-delta axis of a knight's move, on b's side
KnightCell(a, b) ==
    IF DY(a, b) = 2
    THEN <<a[1] + (IF b[1] < a[1] THEN -1 ELSE 1), a[2]>>
    ELSE <<a[1], a[2] + (IF b[2] < a[2] THEN -1 ELSE 1)>>

\* C2: for a pair of cells that is not a knight's move apart, los(A,B) = los(B,A)
C2_Reflexive ==
    (last.op = "los" /\ ~KnightMove(last.a, last.b))
        => last.ret = los(feat, last.b[1], last.b[2], last.a[1], last.a[2])

\* a general diagonal line blocked by a wall, seen the same from both ends
C2_Witness ==
    /\ last.op = "los" /\ ~KnightMove(last.a, last.b)
    /\ DX(last.a, last.b) >= 3 /\ DY(last.a, last.b) >= 1
    /\ DX(last.a, last.b) # DY(last.a, last.b)
    /\ last.ret = FALSE
    /\ ~los(feat, last.b[1], last.b[2], last.a[1], last.a[2])

\* C3: identical or adjacent cells always have line of sight, whatever the terrain
C3_Adjacent ==
    (last.op = "los" /\ DX(last.a, last.b) < 2 /\ DY(last.a, last.b) < 2)
        => last.ret = TRUE

\* an adjacent pair whose target is a wall
C3_Witness ==
    /\ last.op = "los" /\ DX(last.a, last.b) < 2 /\ DY(last.a, last.b) < 2
    /\ last.a # last.b
    /\ square_iswall(feat, last.b[1], last.b[2])
    /\ last.ret = TRUE

\* C4: on one row or column at distance >= 2, los holds exactly when every cell
\* strictly in between is projectable
C4_Orthogonal ==
    (/\ last.op = "los"
     /\ last.a[1] = last.b[1] \/ last.a[2] = last.b[2]
     /\ DX(last.a, last.b) + DY(last.a, last.b) >= 2)
        => (last.ret <=> \A c \in Between(last.a, last.b) : square_isprojectable(feat, c[1], c[2]))

\* an orthogonal line of length >= 3 blocked by one wall in between
C4_Witness ==
    /\ last.op = "los"
    /\ last.a[1] = last.b[1] \/ last.a[2] = last.b[2]
    /\ DX(last.a, last.b) + DY(last.a, last.b) >= 3
    /\ \E c \in Between(last.a, last.b) : square_iswall(feat, c[1], c[2])
    /\ last.ret = FALSE

\* C5: for a knight's move, los(A,B) is the projectability of the cell next to A
\* along the larger-delta axis, on B's side
C5_Knight ==
    (last.op = "los" /\ KnightMove(last.a, last.b))
        => (last.ret <=> square_isprojectable(feat, KnightCell(last.a, last.b)[1],
                                              KnightCell(last.a, last.b)[2]))

\* a knight's move seen from A but not from B
C5_Witness ==
    /\ last.op = "los" /\ KnightMove(last.a, last.b)
    /\ last.ret = TRUE
    /\ ~los(feat, last.b[1], last.b[2], last.a[1], last.a[2])

(* ------------------------------------------------------------------ *)
(* cave_update_flow() and cave_forget_flow()                          *)
(* ------------------------------------------------------------------ *)

\* ddy_ddd[], ddx_ddd[]: the eight neighbours, in the order of the tables
ddy_ddd == <<1, -1, 0, 0, 1, 1, -1, -1>>
ddx_ddd == <<0, 0, 1, -1, 1, -1, 1, -1>>

\* mutant: the counter restarts and the time-stamps stay as they are
flow_cycle_norebase(w, fs) ==
    IF fs = 255
    THEN [when |-> w, flow_save |-> 128]
    ELSE [when |-> w, flow_save |-> fs + 1]

\* mutant: when the counter restarts every time-stamp is forgotten
flow_cycle_zero(w, fs) ==
    IF fs = 255
    THEN [when |-> [c \in Cells |-> 0], flow_save |-> 128]
    ELSE [when |-> w, flow_save |-> fs + 1]

\* "Cycle the flow": the new time-stamps and the new flow_save
flow_cycle(w, fs) ==
    IF fs = 255
    THEN [when |-> [c \in Cells |-> IF w[c] >= 128 THEN w[c] - 128 ELSE 0],
          flow_save |-> 128]
    ELSE [when |-> w, flow_save |-> fs + 1]

\* mutant: any stamped cell counts as already visited
flow_prestamped_any(w, y, x, flow_n) == w[<<y, x>>] # 0

\* Ignore "pre-stamped" entries
flow_prestamped(w, y, x, flow_n) == w[<<y, x>>] = flow_n

\* mutant: an overflow empties the queue
flow_advance_flush(head, tail, cap) ==
    IF (IF tail + 1 = cap THEN 0 ELSE tail + 1) = head
    THEN head
    ELSE IF tail + 1 = cap THEN 0 ELSE tail + 1

\* mutant: the tail is advanced and never taken back
flow_advance_noundo(head, tail, cap) == IF tail + 1 = cap THEN 0 ELSE tail + 1

\* "Advance the queue" and "Overflow by forgetting new entry": the new tail
flow_advance(head, tail, cap) ==
    IF (IF tail + 1 = cap THEN 0 ELSE tail + 1) = head
    THEN tail
    ELSE IF tail + 1 = cap THEN 0 ELSE tail + 1

\* mutant: a child gets the cost of the cell it was reached from plus two
flow_child_far(st, ft, flow_n, y, x, n, cap) ==
    IF ~square_in_bounds(y, x) THEN st
    ELSE IF flow_prestamped(st.when, y, x, flow_n) THEN st
    ELSE IF "NO_FLOW" \in f_info[ft[<<y, x>>]] THEN st
    ELSE [cost |-> [st.cost EXCEPT ![<<y, x>>] = n + 1],
          when |-> [st.when EXCEPT ![<<y, x>>] = flow_n],
          q    |-> (st.tail :> <<y, x>>) @@ st.q,
          head |-> st.head,
          tail |-> flow_advance(st.head, st.tail, cap)]

\* mutant: walls and rubble are entered like any other grid
flow_child_walls(st, ft, flow_n, y, x, n, cap) ==
    IF ~square_in_bounds(y, x) THEN st
    ELSE IF flow_prestamped(st.when, y, x, flow_n) THEN st
    ELSE [cost |-> [st.cost EXCEPT ![<<y, x>>] = n],
          when |-> [st.when EXCEPT ![<<y, x>>] = flow_n],
          q    |-> (st.tail :> <<y, x>>) @@ st.q,
          head |-> st.head,
          tail |-> flow_advance(st.head, st.tail, cap)]

\* the body of the loop over the eight children of a dequeued cell
flow_child(st, ft, flow_n, y, x, n, cap) ==
    IF ~square_in_bounds(y, x) THEN st
    ELSE IF flow_prestamped(st.when, y, x, flow_n) THEN st
    ELSE IF "NO_FLOW" \in f_info[ft[<<y, x>>]] THEN st
    ELSE [cost |-> [st.cost EXCEPT ![<<y, x>>] = n],
          when |-> [st.when EXCEPT ![<<y, x>>] = flow_n],
          q    |-> (st.tail :> <<y, x>>) @@ st.q,
          head |-> st.head,
          tail |-> flow_advance(st.head, st.tail, cap)]

RECURSIVE flow_children(_, _, _, _, _, _, _, _)
\* for (d = 0; d < 8; d++): d counts from 1 here
flow_children(st, ft, flow_n, ty, tx, n, d, cap) ==
    IF d > 8 THEN st
    ELSE flow_children(flow_child(st, ft, flow_n, ty + ddy_ddd[d], tx + ddx_ddd[d], n, cap),
                       ft, flow_n, ty, tx, n, d + 1, cap)

\* "Forget that entry (with wrap)"
flow_dequeue(st, cap) == [st EXCEPT !.head = IF st.head + 1 = cap THEN 0 ELSE st.head + 1]

RECURSIVE flow_loop_deep(_, _, _, _)
\* mutant: the depth limit is compared with the cost of the dequeued grid
flow_loop_deep(st, ft, flow_n, cap) ==
    IF st.head = st.tail THEN st
    ELSE IF st.cost[st.q[st.head]] = MONSTER_FLOW_DEPTH
         THEN flow_loop_deep(flow_dequeue(st, cap), ft, flow_n, cap)
         ELSE flow_loop_deep(flow_children(flow_dequeue(st, cap), ft, flow_n,
                                           st.q[st.head][1], st.q[st.head][2],
                                           st.cost[st.q[st.head]] + 1, 1, cap),
                             ft, flow_n, cap)

RECURSIVE flow_loop(_, _, _, _)
\* "Now process the queue"
flow_loop(st, ft, flow_n, cap) ==
    IF st.head = st.tail THEN st
    ELSE IF st.cost[st.q[st.head]] + 1 = MONSTER_FLOW_DEPTH
         THEN flow_loop(flow_dequeue(st, cap), ft, flow_n, cap)
         ELSE flow_loop(flow_children(flow_dequeue(st, cap), ft, flow_n,
                                      st.q[st.head][1], st.q[st.head][2],
                                      st.cost[st.q[st.head]] + 1, 1, cap),
                        ft, flow_n, cap)

\* the fields of the level when the queue has run empty
flow_finish(st, flow_n) == [cost |-> st.cost, when |-> st.when, flow_save |-> flow_n]

\* "Player Grid": the player's cell is stamped and enqueued
flow_start(cyc, c0, y, x) ==
    [cost |-> [c0 EXCEPT ![<<y, x>>] = 0],
     when |-> [cyc.when EXCEPT ![<<y, x>>] = cyc.flow_save],
     q    |-> (0 :> <<y, x>>),
     head |-> 0,
     tail |-> 1]

\* what a call leaves: cost, when and flow_save, with a queue of cap entries
update_flow(ft, c0, w0, fs, y, x, cap) ==
    flow_finish(flow_loop(flow_start(flow_cycle(w0, fs), c0, y, x), ft,
                          flow_cycle(w0, fs).flow_save, cap),
                flow_cycle(w0, fs).flow_save)

\* the cells stamped with the current generation, each with its cost
Stamped == {c \in Cells : when[c] = flow_save}

StampedCost == [c \in Stamped |-> cost[c]]

cave_update_flow ==
    /\ flow_hist.calls < MaxFlowCalls
    /\ \E r \in {update_flow(feat, cost, when, flow_save, py, px, FLOW_MAX)} :
           /\ cost' = r.cost
           /\ when' = r.when
           /\ flow_save' = r.flow_save
           /\ flow_hist' = [calls   |-> flow_hist.calls + 1,
                            wrapped |-> flow_hist.wrapped \/ flow_save = 255,
                            first   |-> IF flow_hist.calls = 0
                                        THEN [c \in {d \in Cells : r.when[d] = r.flow_save}
                                                 |-> r.cost[c]]
                                        ELSE flow_hist.first]
    /\ last' = [NoOp EXCEPT !.op = "cave_update_flow"]
    /\ UNCHANGED <<feat, feat_count, info, py, px, cur_light, blind, monsters, objects,
                   feeling_squares, feeling_shown, redraw, rt, aborted>>

cave_forget_flow ==
    /\ IF flow_save = 0
       THEN UNCHANGED <<cost, when, flow_save>>
       ELSE /\ cost' = [c \in Cells |-> 0]
            /\ when' = [c \in Cells |-> 0]
            /\ flow_save' = 0
    /\ last' = [NoOp EXCEPT !.op = "cave_forget_flow"]
    /\ UNCHANGED <<feat, feat_count, info, py, px, cur_light, blind, monsters, objects,
                   feeling_squares, feeling_shown, redraw, rt, aborted, flow_hist>>

\* a static map: the terrain and the player stay where the run puts them;
\* flow_save is a static of the program and keeps its value across levels
InitFlow ==
    /\ FreshLevel
    /\ \E ws \in WallSets(MaxWalls) : feat = Layout(ws, "GRANITE")
    /\ flow_save \in {0, 255 - WrapLead}
    /\ \E y \in 0 .. Height - 1, x \in 0 .. Width - 1 :
          /\ square_in_bounds_fully(y, x)
          /\ "NO_FLOW" \notin f_info[feat[<<y, x>>]]
          /\ py = y /\ px = x
    /\ cur_light = 0
    /\ blind = FALSE
    /\ monsters = <<>>
    /\ objects = <<>>
    /\ feat_count = CountFeat(feat)

NextFlow == cave_update_flow \/ cave_forget_flow

SpecFlow == InitFlow /\ [][NextFlow]_vars

Chebyshev(a, b) == IF DY(a, b) > DX(a, b) THEN DY(a, b) ELSE DX(a, b)

OpenRoom == \A c \in Cells : "NO_FLOW" \notin f_info[feat[c]]

\* C6 as stated: in an open room every cell reached by cave_update_flow has the
\* octagonal distance to the player as its cost
C6_Octagonal ==
    (last.op = "cave_update_flow" /\ OpenRoom)
        => \A c \in Stamped : cost[c] = distance(c[1], c[2], py, px)

\* C6 amended: in an open room, after cave_update_flow every cell whose Chebyshev
\* distance max(|dy|,|dx|) to the player is below MONSTER_FLOW_DEPTH carries the
\* current generation and has that distance as its cost
C6_Chebyshev ==
    (last.op = "cave_update_flow" /\ OpenRoom)
        => \A c \in Cells :
              Chebyshev(c, <<py, px>>) < MONSTER_FLOW_DEPTH
                  => (when[c] = flow_save /\ cost[c] = Chebyshev(c, <<py, px>>))

\* an open room in which a cell two diagonal steps away was given cost 2
C6_Witness ==
    /\ last.op = "cave_update_flow" /\ OpenRoom
    /\ \E c \in Stamped :
          /\ DY(c, <<py, px>>) = 2 /\ DX(c, <<py, px>>) = 2
          /\ cost[c] = 2

\* C7: on a static map every cave_update_flow call, also one that crosses the
\* wrap of the generation counter, stamps the same cells with the same costs as
\* the first call did
C7_Stable ==
    last.op = "cave_update_flow" => StampedCost = flow_hist.first

\* a later call, made after the counter wrapped from 255 to 128, on a map with a wall
C7_Witness ==
    /\ last.op = "cave_update_flow"
    /\ flow_hist.wrapped /\ flow_hist.calls >= 3
    /\ flow_save > 128
    /\ ~OpenRoom
    /\ Cardinality(Stamped) > 1
    /\ \E c \in Cells : when[c] # flow_save

(* ------------------------------------------------------------------ *)
(* square_note_spot()                                                 *)
(* ------------------------------------------------------------------ *)

ObjectsAt(objs, y, x) == {k \in DOMAIN objs : objs[k].iy = y /\ objs[k].ix = x}

\* mutant: each call raises the mark of an object by one level
note_object_promote(o) ==
    [o EXCEPT !.marked = IF @ = "MARK_UNAWARE" THEN "MARK_AWARE" ELSE "MARK_SEEN"]

\* o_ptr->marked = MARK_SEEN
note_object(o) == [o EXCEPT !.marked = "MARK_SEEN"]

\* the objects after square_note_spot(c, y, x) on a level with the flags inf
note_spot_objects(inf, objs, y, x) ==
    IF "SEEN" \notin inf[<<y, x>>] THEN objs
    ELSE [k \in DOMAIN objs |->
             IF k \in ObjectsAt(objs, y, x) THEN note_object(objs[k]) ELSE objs[k]]

\* mutant: the grid is memorized without the "seen" flag being required
note_spot_flags_unseen(fl) == fl \cup {"MARK"}

\* the flags of the cell after square_note_spot() on a cell with the flags fl
note_spot_flags(fl) ==
    IF "SEEN" \notin fl THEN fl
    ELSE IF "MARK" \in fl THEN fl
    ELSE fl \cup {"MARK"}

square_note_spot(y, x) ==
    /\ ~aborted
    /\ last.op = "none"
    /\ info' = [info EXCEPT ![<<y, x>>] = note_spot_flags(@)]
    /\ objects' = note_spot_objects(info, objects, y, x)
    /\ last' = [NoOp EXCEPT !.op = "square_note_spot", !.a = <<y, x>>]
    /\ rt' = [NoRoundTrip EXCEPT !.phase = "note", !.o = <<y, x>>, !.info = info]
    /\ UNCHANGED <<feat, feat_count, py, px, cur_light, blind, monsters, feeling_squares,
                   feeling_shown, redraw, cost, when, flow_save, aborted, flow_hist>>

\* the pile of MaxObjects objects on one inner cell: the first not yet noticed,
\* the others in the three states of being known
ObjCell == <<Height - 2, 1>>

Pile ==
    [k \in 1 .. MaxObjects |->
        [iy |-> ObjCell[1], ix |-> ObjCell[2],
         marked |-> IF k = 1 THEN "MARK_UNAWARE"
                    ELSE IF k = 2 THEN "MARK_AWARE" ELSE "MARK_SEEN"]]

\* the cells left of column e
LeftOf(e) == {c \in Cells : c[2] < e}

\* memorization runs: a straight run of cells in view and seen, the cells left of
\* some column memorized, one square_note_spot() call
InitNote ==
    /\ FreshRest
    /\ feat = Layout({}, "GRANITE")
    /\ \E sn \in WallSets(MaxWalls), e \in 0 .. Width :
          info = [c \in Cells |->
                     (IF c \in sn THEN {"VIEW", "SEEN"} ELSE {}) \cup
                     (IF c \in LeftOf(e) THEN {"MARK"} ELSE {})]
    /\ flow_save = 0
    /\ py = 1 /\ px = 1
    /\ cur_light = 0
    /\ blind = FALSE
    /\ monsters = <<>>
    /\ objects = Pile
    /\ feat_count = CountFeat(feat)


NextNote == \E c \in Cells : square_note_spot(c[1], c[2])

SpecNote == InitNote /\ [][NextNote]_vars

\* C8: a second square_note_spot call on the same cell changes neither the flags
\* nor the marked state of any object, and a call on a cell that has MARK already
\* changes no flag of any cell
C8_Idempotent ==
    last.op = "square_note_spot" =>
        /\ [info EXCEPT ![last.a] = note_spot_flags(@)] = info
        /\ note_spot_objects(info, objects, last.a[1], last.a[2]) = objects
        /\ ("MARK" \in rt.info[last.a] => info = rt.info)

\* the first call memorized a seen cell that was unmarked and held unnoticed objects
C8_Witness ==
    /\ last.op = "square_note_spot"
    /\ "MARK" \notin rt.info[last.a] /\ "MARK" \in info[last.a]
    /\ ObjectsAt(objects, last.a[1], last.a[2]) # {}
    /\ \A k \in ObjectsAt(objects, last.a[1], last.a[2]) : objects[k].marked = "MARK_SEEN"

\* C16: square_note_spot called on a cell that does not have SEEN changes no flag
\* of any cell and no object's marked state
C16_UnseenNoOp ==
    (last.op = "square_note_spot" /\ "SEEN" \notin rt.info[last.a]) =>
        (info = rt.info /\ objects = Pile)

\* the call was made on the cell of the pile, which was neither seen nor memorized
C16_Witness ==
    /\ last.op = "square_note_spot" /\ last.a = ObjCell
    /\ "SEEN" \notin rt.info[last.a] /\ "MARK" \notin rt.info[last.a]
    /\ \E k \in ObjectsAt(objects, last.a[1], last.a[2]) : objects[k].marked # "MARK_SEEN"

(* ------------------------------------------------------------------ *)
(* forget_view() and update_view()                                    *)
(* ------------------------------------------------------------------ *)

\* mutant: forget_view() redraws and forgets nothing
forget_view_flags_keep(inf) == inf

\* mutant: forget_view() takes VIEW off and leaves SEEN
forget_view_flags_viewonly(inf) ==
    [c \in Cells |-> IF "VIEW" \in inf[c] THEN inf[c] \ {"VIEW"} ELSE inf[c]]

\* the flags after forget_view()
forget_view_flags(inf) ==
    [c \in Cells |-> IF "VIEW" \in inf[c] THEN inf[c] \ {"VIEW", "SEEN"} ELSE inf[c]]

\* the cells forget_view() redraws
forget_view_redraw(inf) == {c \in Cells : "VIEW" \in inf[c]}

\* mutant: the grids that were seen are not remembered as such
mark_wasseen_none(inf) == [c \in Cells |-> inf[c] \ {"VIEW", "SEEN"}]

\* mutant: every grid in view is taken for a grid that was seen
mark_wasseen_view(inf) ==
    [c \in Cells |->
        (IF "VIEW" \in inf[c] THEN inf[c] \cup {"WASSEEN"} ELSE inf[c]) \ {"VIEW", "SEEN"}]

mark_wasseen(inf) ==
    [c \in Cells |->
        (IF "SEEN" \in inf[c] THEN inf[c] \cup {"WASSEEN"} ELSE inf[c]) \ {"VIEW", "SEEN"}]

\* mutant: a tile is lit without being in line of sight of the player
monster_light_nolos(ft, m, fromy, fromx) ==
    IF m.race = "none" \/ ~m.has_light THEN {}
    ELSE {c \in {<<m.fy + i, m.fx + j>> : i \in -1 .. 1, j \in -1 .. 1} :
            /\ los(ft, fromy, fromx, m.fy, m.fx) \/ square_isprojectable(ft, c[1], c[2])
            /\ ~(distance(fromy, fromx, c[1], c[2]) > MAX_SIGHT)}

\* the cells of the 3x3 box of monster m that add_monster_lights() marks
monster_light(ft, m, fromy, fromx) ==
    IF m.race = "none" \/ ~m.has_light THEN {}
    ELSE {c \in {<<m.fy + i, m.fx + j>> : i \in -1 .. 1, j \in -1 .. 1} :
            /\ los(ft, fromy, fromx, m.fy, m.fx) \/ square_isprojectable(ft, c[1], c[2])
            /\ ~(distance(fromy, fromx, c[1], c[2]) > MAX_SIGHT)
            /\ los(ft, fromy, fromx, c[1], c[2])}

\* "Mark the square lit and seen"
mark_lit(inf, lit) ==
    [c \in Cells |-> IF c \in lit THEN inf[c] \cup {"VIEW", "SEEN"} ELSE inf[c]]

add_monster_lights(inf, ft, mons, fromy, fromx) ==
    mark_lit(inf, UNION {monster_light(ft, mons[k], fromy, fromx) : k \in DOMAIN mons})

\* mutant: the light does not reach one grid past its nominal radius
view_radius_nominal(cur) == cur

\* "Extract radius value" and "Handle real light"
view_radius(cur) == IF cur > 0 THEN cur + 1 ELSE cur

\* mutant: the player's grid is taken for seen whatever the light
player_grid_seen(inf, y, x, radius) ==
    [inf EXCEPT ![<<y, x>>] = @ \cup {"VIEW", "SEEN"}]

\* "Assume we can view the player grid"
player_grid(inf, y, x, radius) ==
    [inf EXCEPT ![<<y, x>>] =
        @ \cup {"VIEW"} \cup (IF radius > 0 \/ "GLOW" \in @ THEN {"SEEN"} ELSE {})]

\* one step from a towards p along one axis
Toward(a, p) == IF a < p THEN a + 1 ELSE IF a > p THEN a - 1 ELSE a

\* mutant: a lit grid gets "seen" without "view"
become_viewable_noview(inf, ft, y, x, lit, y0, x0) ==
    IF "VIEW" \in inf[<<y, x>>] THEN inf[<<y, x>>]
    ELSE IF lit THEN inf[<<y, x>>] \cup {"SEEN"} ELSE inf[<<y, x>>] \cup {"VIEW"}

\* the flags of the cell y,x after become_viewable()
become_viewable(inf, ft, y, x, lit, y0, x0) ==
    IF "VIEW" \in inf[<<y, x>>] THEN inf[<<y, x>>]
    ELSE inf[<<y, x>>] \cup {"VIEW"}
           \cup (IF lit THEN {"SEEN"} ELSE {})
           \cup (IF /\ "GLOW" \in inf[<<y, x>>]
                    /\ "GLOW" \in inf[IF square_iswall(ft, y, x)
                                      THEN <<Toward(y, y0), Toward(x, x0)>>
                                      ELSE <<y, x>>]
                 THEN {"SEEN"} ELSE {})

\* mutant: line of sight is taken from the grid towards the player, whatever it is
wall_reference_steal(ft, y, x, y0, x0, sy, sx) == <<Toward(y, y0), Toward(x, x0)>>

\* the point yc,xc that update_view_one() tests los() to, for a wall grid
wall_reference(ft, y, x, y0, x0, sy, sx) ==
    IF ABS(x - x0) = 2 /\ ABS(y - y0) = 1
          /\ ~square_iswall(ft, y, x - sx) /\ square_iswall(ft, y - sy, x - sx)
    THEN <<y, x>>
    ELSE IF ABS(x - x0) = 1 /\ ABS(y - y0) = 2
              /\ ~square_iswall(ft, y - sy, x) /\ square_iswall(ft, y - sy, x - sx)
         THEN <<y, x>>
         ELSE IF square_iswall(ft, Toward(y, y0), Toward(x, x0))
              THEN <<y, x>>
              ELSE <<Toward(y, y0), Toward(x, x0)>>

\* the point yc,xc that update_view_one() tests los() to
view_reference(ft, y, x, y0, x0) ==
    IF square_iswall(ft, y, x)
    THEN wall_reference(ft, y, x, y0, x0,
                        IF y - y0 > 0 THEN 1 ELSE -1, IF x - x0 > 0 THEN 1 ELSE -1)
    ELSE <<y, x>>

\* the los() test of update_view_one()
view_los(ft, y0, x0, ref) == los(ft, y0, x0, ref[1], ref[2])

\* mutant: a grid beyond MAX_SIGHT is tested like the others
update_view_one_far(inf, ft, y, x, radius, y0, x0) ==
    IF view_los(ft, y0, x0, view_reference(ft, y, x, y0, x0))
    THEN become_viewable(inf, ft, y, x, distance(y, x, y0, x0) < radius, y0, x0)
    ELSE inf[<<y, x>>]

\* the flags of the cell y,x after update_view_one()
update_view_one(inf, ft, y, x, radius, y0, x0) ==
    IF distance(y, x, y0, x0) > MAX_SIGHT THEN inf[<<y, x>>]
    ELSE IF view_los(ft, y0, x0, view_reference(ft, y, x, y0, x0))
         THEN become_viewable(inf, ft, y, x, distance(y, x, y0, x0) < radius, y0, x0)
         ELSE inf[<<y, x>>]

\* "View squares we have LOS to"
view_scan(inf, ft, radius, y0, x0) ==
    [c \in Cells |-> update_view_one(inf, ft, c[1], c[2], radius, y0, x0)]

\* a flag map as the explicit table of its values, every cell worked out once
Table(f) == f @@ <<>>

\* the flags when update_view() has set "view" and "seen" and not yet run update_one()
view_pass(inf, ft, mons, y0, x0, cur) ==
    Table(view_scan(Table(player_grid(add_monster_lights(mark_wasseen(inf), ft, mons, y0, x0),
                                      y0, x0, view_radius(cur))),
                    ft, view_radius(cur), y0, x0))

\* update_one(): "Square went from unseen -> seen"
newly_seen(fl, bl) == "SEEN" \in fl /\ ~bl /\ "WASSEEN" \notin fl

\* mutant: every grid that was seen is redrawn, also when it is still seen
went_unseen_wasseen(fl, bl) == "WASSEEN" \in fl

\* update_one(): "Square went from seen -> unseen"
went_unseen(fl, bl) == ("SEEN" \notin fl \/ bl) /\ "WASSEEN" \in fl

\* mutant: blindness is looked at after the grid was taken for newly seen
update_one_blindlate(fl, bl) ==
    IF "SEEN" \in fl /\ "WASSEEN" \notin fl
    THEN (note_spot_flags(fl \ {"FEEL"}) \ {"WASSEEN"}) \ (IF bl THEN {"SEEN"} ELSE {})
    ELSE (IF bl THEN fl \ {"SEEN"} ELSE fl) \ {"WASSEEN"}

\* mutant: a newly seen grid is not memorized
update_one_nonote(fl, bl) ==
    IF newly_seen(fl, bl)
    THEN (fl \ {"FEEL"}) \ {"WASSEEN"}
    ELSE (IF bl THEN fl \ {"SEEN"} ELSE fl) \ {"WASSEEN"}

\* mutant: the feeling trigger stays on the grid
update_one_keepfeel(fl, bl) ==
    IF newly_seen(fl, bl)
    THEN note_spot_flags(fl) \ {"WASSEEN"}
    ELSE (IF bl THEN fl \ {"SEEN"} ELSE fl) \ {"WASSEEN"}

\* the flags of a cell after update_one()
update_one(fl, bl) ==
    IF newly_seen(fl, bl)
    THEN note_spot_flags(fl \ {"FEEL"}) \ {"WASSEEN"}
    ELSE (IF bl THEN fl \ {"SEEN"} ELSE fl) \ {"WASSEEN"}

\* the objects after the square_note_spot() calls of update_one() on the cells ns
note_cells(objs, ns) ==
    [k \in DOMAIN objs |->
        IF <<objs[k].iy, objs[k].ix>> \in ns THEN note_object(objs[k]) ELSE objs[k]]

\* "Step 3 -- Complete the algorithm": update_one() on every cell, vf being the
\* flags that the scan left
view_commit(vf, objs, fsq, shown, bl) ==
    [info            |-> [c \in Cells |-> update_one(vf[c], bl)],
     objects         |-> note_cells(objs, {c \in Cells : newly_seen(vf[c], bl)}),
     feeling_squares |-> fsq + Cardinality({c \in Cells : newly_seen(vf[c], bl) /\ "FEEL" \in vf[c]}),
     feeling_shown   |-> IF /\ fsq < FEELING1
                            /\ fsq + Cardinality({c \in Cells : newly_seen(vf[c], bl)
                                                                /\ "FEEL" \in vf[c]}) >= FEELING1
                         THEN shown + 1 ELSE shown,
     redraw          |-> {c \in Cells : newly_seen(vf[c], bl) \/ went_unseen(vf[c], bl)}]

\* what update_view() leaves
update_view_result(inf, ft, mons, objs, fsq, shown, y0, x0, cur, bl) ==
    view_commit(view_pass(inf, ft, mons, y0, x0, cur), objs, fsq, shown, bl)

update_view ==
    /\ ~aborted
    /\ \E r \in {update_view_result(info, feat, monsters, objects, feeling_squares,
                                    feeling_shown, py, px, cur_light, blind)} :
          /\ info' = r.info
          /\ objects' = r.objects
          /\ feeling_squares' = r.feeling_squares
          /\ feeling_shown' = r.feeling_shown
          /\ redraw' = r.redraw
    /\ last' = [NoOp EXCEPT !.op = "update_view"]
    /\ rt' = [NoRoundTrip EXCEPT !.phase = "view", !.info = info,
                                 !.o = <<feeling_squares, feeling_shown>>]
    /\ UNCHANGED <<feat, feat_count, py, px, cur_light, blind, monsters, cost, when, flow_save,
                   aborted, flow_hist>>

forget_view ==
    /\ ~aborted
    /\ info' = forget_view_flags(info)
    /\ redraw' = forget_view_redraw(info)
    /\ last' = [NoOp EXCEPT !.op = "forget_view"]
    /\ rt' = NoRoundTrip
    /\ UNCHANGED <<feat, feat_count, py, px, cur_light, blind, monsters, objects, feeling_squares,
                   feeling_shown, cost, when, flow_save, aborted, flow_hist>>

(* ------------------------------------------------------------------ *)
(* light_room()                                                       *)
(* ------------------------------------------------------------------ *)

\* a point set: the points in the order they were added; oob is set when a
\* coordinate outside the level reached the assert() of square_isroom()
point_set_new == [pts |-> <<>>, oob |-> FALSE]

point_set_contains(ps, y, x) == \E i \in 1 .. Len(ps.pts) : ps.pts[i] = <<y, x>>

add_to_point_set(ps, y, x) == [ps EXCEPT !.pts = Append(@, <<y, x>>)]

cave_room_aux(ps, inf, y, x) ==
    IF ps.oob THEN ps
    ELSE IF point_set_contains(ps, y, x) THEN ps
    ELSE IF ~square_in_bounds(y, x) THEN [ps EXCEPT !.oob = TRUE]
    ELSE IF "ROOM" \notin inf[<<y, x>>] THEN ps
    ELSE add_to_point_set(ps, y, x)

\* "Spread adjacent" and "Spread diagonal"
room_spread(ps, inf, y, x) ==
    cave_room_aux(
     cave_room_aux(
      cave_room_aux(
       cave_room_aux(
        cave_room_aux(
         cave_room_aux(
          cave_room_aux(
           cave_room_aux(ps, inf, y + 1, x),
           inf, y - 1, x),
          inf, y, x + 1),
         inf, y, x - 1),
        inf, y + 1, x + 1),
       inf, y - 1, x - 1),
      inf, y - 1, x + 1),
     inf, y + 1, x - 1)

RECURSIVE room_flood_walls(_, _, _, _)
\* mutant: a wall in the queue spreads the light like a floor grid
room_flood_walls(ps, inf, ft, i) ==
    IF ps.oob \/ i > Len(ps.pts) THEN ps
    ELSE room_flood_walls(room_spread(ps, inf, ps.pts[i][1], ps.pts[i][2]), inf, ft, i + 1)

RECURSIVE room_flood(_, _, _, _)
\* "While grids are in the queue, add their neighbors": i counts from 1 here
room_flood(ps, inf, ft, i) ==
    IF ps.oob \/ i > Len(ps.pts) THEN ps
    ELSE IF ~square_isprojectable(ft, ps.pts[i][1], ps.pts[i][2])
         THEN room_flood(ps, inf, ft, i + 1)
         ELSE room_flood(room_spread(ps, inf, ps.pts[i][1], ps.pts[i][2]), inf, ft, i + 1)

\* the point set light_room(y1, x1, .) collects
room_points(inf, ft, y1, x1) ==
    room_flood(cave_room_aux(point_set_new, inf, y1, x1), inf, ft, 1)

Points(ps) == {ps.pts[i] : i \in 1 .. Len(ps.pts)}

\* cave_light(): "Perma-Light"
cave_light_flags(inf, pts) ==
    [c \in Cells |-> IF c \in pts THEN inf[c] \cup {"GLOW"} ELSE inf[c]]

\* mutant: the grids are darkened but none is forgotten
cave_unlight_flags_keepmark(inf, ft, pts) ==
    [c \in Cells |-> IF c \in pts THEN inf[c] \ {"GLOW"} ELSE inf[c]]

\* mutant: the boring grids are forgotten but the grids stay lit
cave_unlight_flags_keepglow(inf, ft, pts) ==
    [c \in Cells |->
        IF c \in pts
        THEN IF ~square_isinteresting(ft, c[1], c[2]) THEN inf[c] \ {"MARK"} ELSE inf[c]
        ELSE inf[c]]

\* mutant: every darkened grid is forgotten, interesting or not
cave_unlight_flags_forgetall(inf, ft, pts) ==
    [c \in Cells |-> IF c \in pts THEN inf[c] \ {"GLOW", "MARK"} ELSE inf[c]]

\* cave_unlight(): "Darken the grid" and "Forget boring grids"
cave_unlight_flags(inf, ft, pts) ==
    [c \in Cells |->
        IF c \in pts
        THEN IF ~square_isinteresting(ft, c[1], c[2])
             THEN inf[c] \ {"GLOW", "MARK"}
             ELSE inf[c] \ {"GLOW"}
        ELSE inf[c]]

\* update_stuff() with PU_FORGET_VIEW | PU_UPDATE_VIEW: forget_view(), then
\* update_view(); the cells redrawn are those of both
update_stuff(inf, ft, mons, objs, fsq, shown, y0, x0, cur, bl) ==
    [update_view_result(forget_view_flags(inf), ft, mons, objs, fsq, shown, y0, x0, cur, bl)
        EXCEPT !.redraw = @ \cup forget_view_redraw(inf)]

\* cave_light(): "Process affected monsters": smart monsters always wake up, the
\* others wake up some of the time
wake_monsters(mons, pts) ==
    {ms \in [DOMAIN mons -> {mons[k] : k \in DOMAIN mons}
                                \cup {[mons[k] EXCEPT !.asleep = FALSE] : k \in DOMAIN mons}] :
        \A k \in DOMAIN mons :
            \/ ms[k] = [mons[k] EXCEPT !.asleep = FALSE]
                 /\ mons[k].race # "none" /\ <<mons[k].fy, mons[k].fx>> \in pts
            \/ ms[k] = mons[k]
                 /\ ~(/\ mons[k].race = "smart" /\ mons[k].asleep
                      /\ <<mons[k].fy, mons[k].fx>> \in pts)}

\* the body of light_room() once the point set ps is collected
light_room_apply(y1, x1, light, ps) ==
    /\ \E r \in {update_stuff(IF light THEN cave_light_flags(info, Points(ps))
                                       ELSE cave_unlight_flags(info, feat, Points(ps)),
                              feat, monsters, objects, feeling_squares, feeling_shown,
                              py, px, cur_light, blind)} :
          /\ info' = r.info
          /\ objects' = r.objects
          /\ feeling_squares' = r.feeling_squares
          /\ feeling_shown' = r.feeling_shown
          /\ redraw' = r.redraw \cup Points(ps)
          /\ rt' = IF light
                   THEN [phase |-> "lit", o |-> <<y1, x1>>, info |-> info,
                         pts |-> Points(ps),
                         lit |-> {c \in Cells : "GLOW" \in r.info[c]}]
                   ELSE IF rt.phase = "lit" /\ rt.o = <<y1, x1>>
                        THEN [rt EXCEPT !.phase = "done"]
                        ELSE NoRoundTrip
    /\ IF light
       THEN monsters' \in wake_monsters(monsters, Points(ps))
       ELSE monsters' = monsters
    /\ UNCHANGED aborted

light_room(y1, x1, light) ==
    /\ ~aborted
    /\ \E ps \in {room_points(info, feat, y1, x1)} :
          IF ps.oob
          THEN /\ aborted' = TRUE
               /\ UNCHANGED <<info, objects, feeling_squares, feeling_shown, redraw,
                              monsters, rt>>
          ELSE light_room_apply(y1, x1, light, ps)
    /\ last' = [NoOp EXCEPT !.op = "light_room", !.a = <<y1, x1>>, !.ret = light]
    /\ UNCHANGED <<feat, feat_count, py, px, cur_light, blind, cost, when, flow_save, flow_hist>>

(* ------------------------------------------------------------------ *)
(* Field-of-view runs                                                 *)
(* ------------------------------------------------------------------ *)

\* an up staircase (interesting terrain) in the room of every layout
StairCell == <<2, 2>>

\* the room: the inner cells of the columns 1 .. RoomEdge
RoomCells == {c \in Cells : square_in_bounds_fully(c[1], c[2]) /\ c[2] <= RoomEdge}

\* the cells that carry the feeling trigger: row 1
FeelCells == {c \in Cells : c[1] = 1}

\* monster k stands on the inner cell k,k, asleep and carrying a light, or the
\* slot is unused
MonsterAt(k, alive) ==
    IF alive
    THEN [race |-> IF k = 1 THEN "normal" ELSE "smart", fy |-> k, fx |-> k,
          has_light |-> TRUE, asleep |-> TRUE]
    ELSE NoMonster

\* player->timed[TMD_BLIND] is set: the player goes blind, once in a run
set_blind ==
    /\ ~aborted
    /\ ~blind
    /\ blind' = TRUE
    /\ last' = [NoOp EXCEPT !.op = "set_blind"]
    /\ rt' = NoRoundTrip
    /\ UNCHANGED <<feat, feat_count, info, py, px, cur_light, monsters, objects, feeling_squares,
                   feeling_shown, redraw, cost, when, flow_save, aborted, flow_hist>>

\* the level has granite all around it, and one straight wall inside
RoomWalls(n) ==
    {ws \cup {c \in Cells : ~square_in_bounds_fully(c[1], c[2])} :
        ws \in {w \in WallSets(n) : \A c \in w : square_in_bounds_fully(c[1], c[2])}}

Init ==
    /\ FreshRest
    /\ flow_save = 0
    /\ \E ws \in RoomWalls(MaxWalls) :
          feat = [c \in Cells |-> IF c \in ws THEN "GRANITE"
                                  ELSE IF c = StairCell THEN "LESS" ELSE "FLOOR"]
    /\ info = [c \in Cells |-> (IF c \in RoomCells THEN {"ROOM"} ELSE {}) \cup
                               (IF c \in FeelCells THEN {"FEEL"} ELSE {})]
    /\ \E alive \in [1 .. MaxMonsters -> BOOLEAN] :
          monsters = [k \in 1 .. MaxMonsters |-> MonsterAt(k, alive[k])]
    /\ \E x \in 0 .. Width - 1 :
          /\ square_in_bounds_fully(StairCell[1], x)
          /\ square_isprojectable(feat, StairCell[1], x)
          /\ \A k \in 1 .. MaxMonsters :
                monsters[k].race = "none"
                   \/ <<monsters[k].fy, monsters[k].fx>> # <<StairCell[1], x>>
          /\ py = StairCell[1] /\ px = x
    /\ cur_light \in 0 .. MaxLight
    /\ blind = FALSE
    /\ objects = Pile
    /\ feat_count = CountFeat(feat)

Next ==
    \/ update_view
    \/ forget_view
    \/ light_room(py, px, TRUE)
    \/ light_room(py, px, FALSE)
    \/ set_blind

Spec == Init /\ [][Next]_vars

\* C1: in every state reached by update_view, forget_view and light_room calls,
\* every cell that has SEEN also has VIEW
C1_SeenImpliesView == \A c \in Cells : "SEEN" \in info[c] => "VIEW" \in info[c]

\* after an update_view call, a cell lit by a monster and a cell lit by the torch
\* or by its own glow are seen
C1_Witness ==
    /\ last.op = "update_view"
    /\ \E c \in Cells : {"SEEN", "VIEW"} \subseteq info[c] /\ c # <<py, px>>
    /\ \E c \in Cells : "VIEW" \in info[c] /\ "SEEN" \notin info[c]
    /\ \E k \in DOMAIN monsters :
          /\ monsters[k].race # "none"
          /\ "SEEN" \in info[<<monsters[k].fy, monsters[k].fx>>]

\* the cells of the level whose terrain is not interesting
Boring == {c \in Cells : ~square_isinteresting(feat, c[1], c[2])}

\* light_room(o, TRUE) and then light_room(o, FALSE) have just been called
RoundTripDone == rt.phase = "done" /\ last.op = "light_room" /\ ~aborted

\* C9: after light_room(o, TRUE) followed by light_room(o, FALSE), every cell that
\* had GLOW clear before the first call has GLOW clear
C9_GlowRestored ==
    RoundTripDone =>
        \A c \in Cells : "GLOW" \notin rt.info[c] => "GLOW" \notin info[c]

\* the first call lit a cell that was dark, and left alone a cell outside the room
C9_Witness ==
    /\ RoundTripDone
    /\ \E c \in rt.pts : "GLOW" \notin rt.info[c] /\ c \in rt.lit
    /\ \E c \in Cells \ rt.pts : "GLOW" \notin rt.info[c]

\* C10 as stated: after light_room(o, TRUE) followed by light_room(o, FALSE), every
\* cell of non-interesting terrain has MARK exactly when it had MARK before the
\* first call
C10_MarkRestored ==
    RoundTripDone =>
        \A c \in Boring : "MARK" \in info[c] <=> "MARK" \in rt.info[c]

\* C10: after light_room(o, TRUE) followed by light_room(o, FALSE), a collected cell
\* of non-interesting terrain has MARK exactly when it is SEEN, whatever it had
\* before; every other cell that had MARK before the first call still has it
C10_MarkForgotten ==
    RoundTripDone =>
        /\ \A c \in Boring \cap rt.pts : "MARK" \in info[c] <=> "SEEN" \in info[c]
        /\ \A c \in Cells \ (Boring \cap rt.pts) :
               "MARK" \in rt.info[c] => "MARK" \in info[c]

\* the round trip forgot a memorized boring cell of the room, memorized anew one
\* that is seen, and kept the memory of an interesting cell of the room
C10_Witness ==
    /\ RoundTripDone
    /\ \E c \in Boring \cap rt.pts : "MARK" \in rt.info[c] /\ "MARK" \notin info[c]
    /\ \E c \in Boring \cap rt.pts : "MARK" \in info[c] /\ "SEEN" \in info[c]
    /\ \E c \in rt.pts \ Boring : "MARK" \in rt.info[c] /\ "MARK" \in info[c]

(* ------------------------------------------------------------------ *)
(* Sight runs: an open level or two corridors, no glow                *)
(* ------------------------------------------------------------------ *)

\* the row of the wall that separates the two corridors
WallRow == Height \div 2

\* granite all around and on the whole of WallRow: a corridor on either side
TwoCorridors ==
    [c \in Cells |-> IF ~square_in_bounds_fully(c[1], c[2]) \/ c[1] = WallRow
                     THEN "GRANITE" ELSE "FLOOR"]

\* every cell open floor
OpenLevel == Layout({}, "GRANITE")

\* monster slot k: unused, or a monster on an inner cell of column k, with or
\* without a light
SightMonsters(k) ==
    {NoMonster} \cup
    {[race |-> "normal", fy |-> y, fx |-> k, has_light |-> l, asleep |-> TRUE] :
        y \in 1 .. Height - 2, l \in BOOLEAN}

InitSight ==
    /\ FreshLevel
    /\ flow_save = 0
    /\ feat \in {OpenLevel, TwoCorridors}
    /\ monsters \in {ms \in [1 .. MaxMonsters -> UNION {SightMonsters(k) : k \in 1 .. MaxMonsters}] :
                        \A k \in 1 .. MaxMonsters :
                            /\ ms[k] \in SightMonsters(k)
                            /\ ms[k].race = "none" \/ square_isprojectable(feat, ms[k].fy, ms[k].fx)}
    /\ \E c \in Cells :
          /\ square_isprojectable(feat, c[1], c[2])
          /\ \A k \in 1 .. MaxMonsters :
                monsters[k].race = "none" \/ <<monsters[k].fy, monsters[k].fx>> # c
          /\ py = c[1] /\ px = c[2]
    /\ cur_light \in 0 .. MaxLight
    /\ blind = FALSE
    /\ objects = <<>>
    /\ feat_count = CountFeat(feat)

NextSight == update_view \/ forget_view

SpecSight == InitSight /\ [][NextSight]_vars

\* every cell is projectable, no cell glows, no monster carries a light and the
\* player is not blind
OpenArea ==
    /\ \A c \in Cells : square_isprojectable(feat, c[1], c[2]) /\ "GLOW" \notin info[c]
    /\ \A k \in DOMAIN monsters : monsters[k].race = "none" \/ ~monsters[k].has_light
    /\ ~blind

\* C11: in an open area with torch radius r >= 1, after update_view every cell
\* within MAX_SIGHT of the player has VIEW, and a cell has SEEN exactly when its
\* distance to the player is less than r + 1
C11_TorchDisc ==
    (last.op = "update_view" /\ OpenArea /\ cur_light >= 1) =>
        \A c \in Cells :
            /\ distance(c[1], c[2], py, px) <= MAX_SIGHT => "VIEW" \in info[c]
            /\ "SEEN" \in info[c] <=> distance(c[1], c[2], py, px) < cur_light + 1

\* the player at the centre with torch radius 1: the centre and its 8 neighbours
\* are in view and seen, the corner 0,0 is in view and not seen
C11_Witness ==
    /\ last.op = "update_view" /\ OpenArea /\ cur_light = 1
    /\ py = Height \div 2 /\ px = Width \div 2
    /\ \A c \in Cells : (ABS(c[1] - py) <= 1 /\ ABS(c[2] - px) <= 1)
                             => {"VIEW", "SEEN"} \subseteq info[c]
    /\ "VIEW" \in info[<<0, 0>>] /\ "SEEN" \notin info[<<0, 0>>]

\* the cells on the other side of WallRow from the player
FarSide == {c \in Cells : (c[1] - WallRow) * (py - WallRow) < 0}

\* C12: with torch radius 0 and no glow, a cell is SEEN after update_view only if
\* it is within MAX_SIGHT of the player and in the player's line of sight; with
\* two corridors no cell on the far side of the wall row is SEEN
C12_LightNeedsLos ==
    (/\ last.op = "update_view" /\ cur_light = 0 /\ ~blind
     /\ \A c \in Cells : "GLOW" \notin info[c]) =>
        /\ \A c \in Cells :
               "SEEN" \in info[c] =>
                   /\ distance(py, px, c[1], c[2]) <= MAX_SIGHT
                   /\ los(feat, py, px, c[1], c[2])
        /\ feat = TwoCorridors => \A c \in FarSide : "SEEN" \notin info[c]

\* two corridors, a monster with a light in the corridor across the wall row from
\* the player and within MAX_SIGHT: nothing is seen
C12_Witness ==
    /\ last.op = "update_view" /\ cur_light = 0 /\ feat = TwoCorridors
    /\ \E k \in DOMAIN monsters :
          /\ monsters[k].race # "none" /\ monsters[k].has_light
          /\ <<monsters[k].fy, monsters[k].fx>> \in FarSide
          /\ distance(py, px, monsters[k].fy, monsters[k].fx) <= MAX_SIGHT
    /\ \A c \in Cells : "SEEN" \notin info[c]

(* ------------------------------------------------------------------ *)
(* The circular queue of cave_update_flow(), for any capacity         *)
(* ------------------------------------------------------------------ *)

\* the smallest capacities a call is made with go up to SmallCap
SmallCap == 4

\* a run makes at most this many calls with a chosen capacity
MaxQueueCalls == 2

\* the capacities of the queue: flow_y[] and flow_x[] need two entries at least
QueueCaps == (2 .. SmallCap) \cup {FLOW_MAX}

\* the number of entries between head and tail
Occupancy(st, cap) == (st.tail - st.head + cap) % cap

\* the entries enqueued and not yet dequeued, oldest first, are the entries the
\* ring holds from head to tail, and they are fewer than cap
RingHolds(st, pending, cap) ==
    /\ Len(pending) = Occupancy(st, cap)
    /\ Len(pending) <= cap - 1
    /\ \A i \in 1 .. Len(pending) : st.q[(st.head + i - 1) % cap] = pending[i]

\* what the queue looks like to its user when flow_child() has taken st to st2
\* for the child c: c was enqueued, or stamped and forgotten, or skipped
audit_child(au, st2, c, flow_n, cap) ==
    IF ~square_in_bounds(c[1], c[2]) \/ au.st.when[c] = flow_n \/ st2.when[c] # flow_n
    THEN [au EXCEPT !.st = st2]
    ELSE IF st2.tail = au.st.tail
         THEN [au EXCEPT !.st = st2, !.dropped = @ + 1,
                         !.ok = @ /\ RingHolds(st2, au.pending, cap)]
         ELSE [au EXCEPT !.st = st2, !.pending = Append(@, c),
                         !.ok = @ /\ RingHolds(st2, Append(au.pending, c), cap),
                         !.peak = IF Len(au.pending) + 1 > @ THEN Len(au.pending) + 1 ELSE @]

RECURSIVE audit_children(_, _, _, _, _, _, _, _)
\* the eight children of the dequeued cell ty,tx, one flow_child() at a time
audit_children(au, ft, flow_n, ty, tx, n, d, cap) ==
    IF d > 8 THEN au
    ELSE audit_children(
            audit_child(au,
                        flow_child(au.st, ft, flow_n, ty + ddy_ddd[d], tx + ddx_ddd[d], n, cap),
                        <<ty + ddy_ddd[d], tx + ddx_ddd[d]>>, flow_n, cap),
            ft, flow_n, ty, tx, n, d + 1, cap)

\* the entry taken from the head is the oldest entry that was waiting
audit_dequeue(au, cap) ==
    [au EXCEPT !.st = flow_dequeue(au.st, cap),
               !.pending = IF au.pending = <<>> THEN <<>> ELSE Tail(au.pending),
               !.ok = @ /\ au.pending # <<>> /\ au.st.q[au.st.head] = Head(au.pending),
               !.steps = @ + 1]

RECURSIVE audit_loop(_, _, _, _)
\* the loop of flow_loop(), with the entries that wait kept beside the ring
audit_loop(au, ft, flow_n, cap) ==
    IF au.st.head = au.st.tail THEN [au EXCEPT !.ok = @ /\ au.pending = <<>>]
    ELSE IF au.st.cost[au.st.q[au.st.head]] + 1 = MONSTER_FLOW_DEPTH
         THEN audit_loop(audit_dequeue(au, cap), ft, flow_n, cap)
         ELSE audit_loop(audit_children(audit_dequeue(au, cap), ft, flow_n,
                                        au.st.q[au.st.head][1], au.st.q[au.st.head][2],
                                        au.st.cost[au.st.q[au.st.head]] + 1, 1, cap),
                         ft, flow_n, cap)

\* a whole call with a queue of cap entries, audited
audit_flow(ft, c0, w0, fs, y, x, cap) ==
    audit_loop([st |-> flow_start(flow_cycle(w0, fs), c0, y, x),
                pending |-> <<(<<y, x>>)>>, ok |-> TRUE, peak |-> 1, dropped |-> 0,
                steps |-> 0],
               ft, flow_cycle(w0, fs).flow_save, cap)

\* cave_update_flow() compiled with FLOW_MAX = cap
cave_update_flow_cap(cap) ==
    /\ flow_hist.calls < MaxQueueCalls
    /\ \E au \in {audit_flow(feat, cost, when, flow_save, py, px, cap)} :
           /\ cost' = au.st.cost
           /\ when' = au.st.when
           /\ flow_save' = flow_cycle(when, flow_save).flow_save
           /\ last' = [op |-> "cave_update_flow", a |-> <<cap, au.peak>>,
                       b |-> <<au.dropped, au.steps>>, ret |-> au.ok]
           /\ flow_hist' = [calls   |-> flow_hist.calls + 1,
                            wrapped |-> flow_hist.wrapped \/ flow_save = 255,
                            first   |-> IF flow_hist.calls = 0
                                        THEN [dropped |-> au.dropped]
                                        ELSE flow_hist.first]
    /\ UNCHANGED <<feat, feat_count, info, py, px, cur_light, blind, monsters, objects,
                   feeling_squares, feeling_shown, redraw, rt, aborted>>

NextQueue == (\E cap \in QueueCaps : cave_update_flow_cap(cap)) \/ cave_forget_flow

\* a static map with one wall cell at most; the generation counter starts at 0 or
\* so that the last call of the run is the one that wraps it
InitQueue ==
    /\ FreshLevel
    /\ \E ws \in WallSets(1) : feat = Layout(ws, "GRANITE")
    /\ flow_save \in {0, 256 - MaxQueueCalls}
    /\ \E y \in 0 .. Height - 1, x \in 0 .. Width - 1 :
          /\ square_in_bounds_fully(y, x)
          /\ "NO_FLOW" \notin f_info[feat[<<y, x>>]]
          /\ py = y /\ px = x
    /\ cur_light = 0
    /\ blind = FALSE
    /\ monsters = <<>>
    /\ objects = <<>>
    /\ feat_count = CountFeat(feat)

SpecQueue == InitQueue /\ [][NextQueue]_vars

\* C14: during cave_update_flow, for any capacity, the queue never holds more than
\* capacity - 1 entries, every entry is dequeued as it was enqueued, in order, and
\* the call ends with the queue empty
C14_QueueSafe ==
    last.op = "cave_update_flow" => (last.ret /\ last.a[2] <= last.a[1] - 1)

\* a call that filled the queue to capacity - 1 and forgot a new entry
C14_Witness ==
    /\ last.op = "cave_update_flow"
    /\ last.ret
    /\ last.a[2] = last.a[1] - 1
    /\ last.b[1] > 0

\* the cells a call stamps and their costs, r being what the call leaves
StampedBy(r) == [c \in {d \in Cells : r.when[d] = r.flow_save} |-> r.cost[c]]

\* what a call with a queue of cap entries leaves on a level that no call has
\* touched yet
FirstFlow(cap) ==
    StampedBy(update_flow(feat, [c \in Cells |-> 0], [c \in Cells |-> 0], 0, py, px, cap))

\* C15: the cells a cave_update_flow call stamps and their costs are those the
\* call would give on an untouched level, whatever the earlier calls left; a call
\* in which no entry is forgotten gives the complete cost field
C15_HistoryFree ==
    last.op = "cave_update_flow" =>
        /\ StampedCost = FirstFlow(last.a[1])
        /\ last.b[1] = 0 => StampedCost = FirstFlow(FLOW_MAX)

\* the first call forgot entries, the second call forgot none and gave a field
\* that a call with the small queue does not give
C15_Witness ==
    /\ last.op = "cave_update_flow"
    /\ flow_hist.calls = 2 /\ flow_hist.first.dropped > 0
    /\ last.b[1] = 0
    /\ StampedCost # FirstFlow(2)

(* ------------------------------------------------------------------ *)
(* Grid accessors called with any coordinate                          *)
(* ------------------------------------------------------------------ *)

\* the accessors that start with assert(square_in_bounds(c, y, x)), or with the
\* two asserts of square_feat()
AssertingReaders ==
    {"square_feat", "square_isprojectable", "square_iswall", "square_ismark",
     "square_isglow", "square_isseen"}

\* the accessors that index c->feat[y][x] with no assert: square_isinteresting(),
\* and square_isfloor() and the other terrain predicates written like it
PlainReaders == {"square_isinteresting"}

\* what a reader returns for a cell of the level
reader_value(fn, ft, inf, y, x) ==
    CASE fn = "square_feat"           -> ft[<<y, x>>]
      [] fn = "square_isprojectable"  -> square_isprojectable(ft, y, x)
      [] fn = "square_iswall"         -> square_iswall(ft, y, x)
      [] fn = "square_ismark"         -> "MARK" \in inf[<<y, x>>]
      [] fn = "square_isglow"         -> "GLOW" \in inf[<<y, x>>]
      [] fn = "square_isseen"         -> "SEEN" \in inf[<<y, x>>]
      [] fn = "square_isinteresting"  -> square_isinteresting(ft, y, x)

\* one call of a reader: ret.raw tells that a per-cell array was indexed with a
\* coordinate outside the level, which yields any value
square_read(fn, y, x) ==
    /\ ~aborted
    /\ IF square_in_bounds(y, x)
       THEN /\ last' = [op |-> fn, a |-> <<y, x>>, b |-> <<0, 0>>,
                        ret |-> [value |-> reader_value(fn, feat, info, y, x), raw |-> FALSE]]
            /\ UNCHANGED aborted
       ELSE IF fn \in AssertingReaders
            THEN /\ last' = [op |-> fn, a |-> <<y, x>>, b |-> <<0, 0>>,
                             ret |-> [value |-> FALSE, raw |-> FALSE]]
                 /\ aborted' = TRUE
            ELSE /\ \E v \in BOOLEAN :
                       last' = [op |-> fn, a |-> <<y, x>>, b |-> <<0, 0>>,
                                ret |-> [value |-> v, raw |-> TRUE]]
                 /\ UNCHANGED aborted
    /\ UNCHANGED <<feat, feat_count, info, py, px, cur_light, blind, monsters, objects,
                   feeling_squares, feeling_shown, redraw, cost, when, flow_save, rt,
                   flow_hist>>

\* mutant: terrain id 0 is counted like any other
track_feat_zero(fc, current_feat, f) ==
    [fc EXCEPT ![current_feat] = @ - 1, ![f] = @ + 1]

\* "Track changes": terrain id 0 is not counted
track_feat(fc, current_feat, f) ==
    [fc EXCEPT ![current_feat] = IF current_feat # "NONE" THEN @ - 1 ELSE @,
               ![f] = IF f # "NONE" THEN @ + 1 ELSE @]

\* square_set_feat(c, y, x, f), character_dungeon being a global of the game:
\* current_feat is read from c->feat[y][x] before the asserts
square_set_feat(y, x, f, character_dungeon) ==
    /\ ~aborted
    /\ last' = [op |-> "square_set_feat", a |-> <<y, x>>, b |-> <<0, 0>>,
                ret |-> [value |-> f, raw |-> ~square_in_bounds(y, x)]]
    /\ IF ~square_in_bounds(y, x)
       THEN /\ aborted' = TRUE
            /\ UNCHANGED <<feat, feat_count, info, objects, redraw>>
       ELSE /\ feat_count' = track_feat(feat_count, feat[<<y, x>>], f)
            /\ feat' = [feat EXCEPT ![<<y, x>>] = f]
            /\ IF character_dungeon
               THEN /\ info' = [info EXCEPT ![<<y, x>>] = note_spot_flags(@)]
                    /\ objects' = note_spot_objects(info, objects, y, x)
                    /\ redraw' = {<<y, x>>}
               ELSE /\ info' = [info EXCEPT ![<<y, x>>] =
                                    @ \ {"WALL_INNER", "WALL_OUTER", "WALL_SOLID"}]
                    /\ objects' = objects
                    /\ redraw' = {}
            /\ UNCHANGED aborted
    /\ UNCHANGED <<py, px, cur_light, blind, monsters, feeling_squares, feeling_shown,
                   cost, when, flow_save, rt, flow_hist>>

\* a level with one wall cell at most and a staircase; the cells left of column
\* RoomEdge are in view and seen, and those of generation carry "WALL_OUTER"
InitBounds ==
    /\ FreshRest
    /\ \E ws \in WallSets(1) :
          feat = [c \in Cells |-> IF c \in ws THEN "GRANITE"
                                  ELSE IF c = <<2, 2>> THEN "LESS" ELSE "FLOOR"]
    /\ info = [c \in Cells |-> (IF c[2] < RoomEdge THEN {"VIEW", "SEEN"} ELSE {}) \cup
                               (IF feat[c] = "GRANITE" THEN {"WALL_OUTER"} ELSE {})]
    /\ flow_save = 0
    /\ py = 1 /\ px = 1
    /\ cur_light = 0
    /\ blind = FALSE
    /\ monsters = <<>>
    /\ objects = Pile
    /\ feat_count = CountFeat(feat)

\* one accessor call per run, with a coordinate inside the level or one step outside
ReadOnce ==
    /\ last.op = "none"
    /\ \E y \in -1 .. Height, x \in -1 .. Width, fn \in AssertingReaders \cup PlainReaders :
          square_read(fn, y, x)

SetFeatOnce ==
    /\ last.op = "none"
    /\ \E y \in -1 .. Height, x \in -1 .. Width, f \in DOMAIN f_info, cd \in BOOLEAN :
          square_set_feat(y, x, f, cd)

NextBounds == ReadOnce \/ SetFeatOnce

SpecBounds == InitBounds /\ [][NextBounds]_vars

\* C13 as stated: an accessor or mutator called with a coordinate outside the level
\* fails on an assertion and has indexed no per-cell array with it
C13_FailFast ==
    (last.op # "none" /\ ~square_in_bounds(last.a[1], last.a[2])) =>
        (aborted /\ ~last.ret.raw)

(* ------------------------------------------------------------------ *)
(* What one update_view() call does to the flags it found             *)
(* ------------------------------------------------------------------ *)

\* an update_view() call has just returned; rt.info are the flags it found
ViewDone == last.op = "update_view" /\ rt.phase = "view"

Flagged(inf, fl) == {c \in Cells : fl \in inf[c]}

\* the flags the call would have left had the player not been blind
SightedInfo ==
    update_view_result(rt.info, feat, monsters, objects, rt.o[1], rt.o[2],
                       py, px, cur_light, FALSE).info

\* C17: after update_view with the player blind no cell has SEEN, the cells with
\* VIEW are those a call with the player not blind would give, no cell is
\* memorized and the feeling counter is as before the call
C17_Blind ==
    (ViewDone /\ blind) =>
        /\ Flagged(info, "SEEN") = {}
        /\ Flagged(info, "VIEW") = Flagged(SightedInfo, "VIEW")
        /\ Flagged(info, "MARK") = Flagged(rt.info, "MARK")
        /\ feeling_squares = rt.o[1] /\ feeling_shown = rt.o[2]

\* a blind call on a level where a sighted call would have seen a monster-lit
\* cell, memorized a cell and counted a feeling square
C17_Witness ==
    /\ ViewDone /\ blind
    /\ Flagged(info, "VIEW") # {}
    /\ Flagged(SightedInfo, "MARK") # Flagged(rt.info, "MARK")
    /\ Flagged(SightedInfo, "FEEL") # Flagged(rt.info, "FEEL")
    /\ \E k \in DOMAIN monsters :
          /\ monsters[k].race # "none"
          /\ "SEEN" \in SightedInfo[<<monsters[k].fy, monsters[k].fx>>]
          /\ "VIEW" \in info[<<monsters[k].fy, monsters[k].fx>>]

\* the flags when the scan of the call is over and update_one() has not run
ScanInfo == view_pass(rt.info, feat, monsters, py, px, cur_light)

\* C18: after an update_view call no cell has WASSEEN; during the call, after
\* mark_wasseen() and until update_one(), WASSEEN is on exactly the cells that
\* had SEEN when the call started
C18_WasSeen ==
    ViewDone =>
        /\ Flagged(info, "WASSEEN") = {}
        /\ Flagged(mark_wasseen(rt.info), "WASSEEN") = Flagged(rt.info, "SEEN")
        /\ Flagged(ScanInfo, "WASSEEN") = Flagged(rt.info, "SEEN")

\* the call started with cells that had SEEN, and with a cell in view and not seen
C18_Witness ==
    /\ ViewDone
    /\ Flagged(rt.info, "SEEN") # {}
    /\ Flagged(rt.info, "VIEW") \ Flagged(rt.info, "SEEN") # {}
    /\ Flagged(rt.info, "SEEN") \ Flagged(info, "SEEN") # {}

\* C19: a cell that has SEEN after update_view and did not have it when the call
\* started has MARK, and every object on it is marked MARK_SEEN; no cell loses MARK
C19_Memorize ==
    ViewDone =>
        /\ \A c \in Flagged(info, "SEEN") \ Flagged(rt.info, "SEEN") :
               /\ "MARK" \in info[c]
               /\ \A k \in ObjectsAt(objects, c[1], c[2]) : objects[k].marked = "MARK_SEEN"
        /\ Flagged(rt.info, "MARK") \subseteq Flagged(info, "MARK")

\* the cell of the pile became seen in the call and was not memorized before it,
\* while a cell in view stayed unseen and unmemorized
C19_Witness ==
    /\ ViewDone
    /\ "SEEN" \in info[ObjCell] /\ "SEEN" \notin rt.info[ObjCell]
    /\ "MARK" \notin rt.info[ObjCell]
    /\ ObjectsAt(objects, ObjCell[1], ObjCell[2]) # {}
    /\ \E c \in Flagged(info, "VIEW") : "SEEN" \notin info[c] /\ "MARK" \notin info[c]

\* C20: in every step a cell loses FEEL only by becoming seen, no cell gains FEEL,
\* the feeling counter grows by the number of cells that lost FEEL, and the
\* announcement is made once, in the step in which the counter reaches FEELING1
C20_FeelOnce ==
    [][/\ Flagged(info', "FEEL") \subseteq Flagged(info, "FEEL")
       /\ Flagged(info, "FEEL") \ Flagged(info', "FEEL") \subseteq Flagged(info', "SEEN")
       /\ feeling_squares' =
              feeling_squares + Cardinality(Flagged(info, "FEEL") \ Flagged(info', "FEEL"))
       /\ feeling_shown' =
              feeling_shown + (IF feeling_squares < FEELING1 /\ feeling_squares' >= FEELING1
                               THEN 1 ELSE 0)
       /\ feeling_shown' <= 1]_vars

\* the counter went past FEELING1 with one announcement made, and a cell that
\* has not been seen yet still carries FEEL
C20_Witness ==
    /\ feeling_squares > FEELING1
    /\ feeling_shown = 1
    /\ Flagged(info, "FEEL") # {}
    /\ Flagged(info, "SEEN") # {}

(* ------------------------------------------------------------------ *)
(* Walk runs: the player walks east along a row of a level with a     *)
(* short wall and a lit part                                          *)
(* ------------------------------------------------------------------ *)

\* no wall, or a wall of one cell or of two cells that touch along a row, a
\* column or a diagonal
WallPairs ==
    {{}} \cup
    {{ab[1], ab[2]} :
        ab \in {cd \in Cells \X Cells : /\ ABS(cd[1][1] - cd[2][1]) <= 1
                                        /\ ABS(cd[1][2] - cd[2][2]) <= 1}}

\* the lit part of the level: the columns from e on
GlowFrom(e) == {c \in Cells : c[2] >= e}

\* the row the player walks along
WalkRow == 1

\* player->px grows by one: the player steps on the next cell to the east, which
\* is open floor
step_east ==
    /\ ~aborted
    /\ square_in_bounds(py, px + 1)
    /\ square_isprojectable(feat, py, px + 1)
    /\ px' = px + 1
    /\ last' = [NoOp EXCEPT !.op = "step_east"]
    /\ rt' = NoRoundTrip
    /\ UNCHANGED <<feat, feat_count, info, py, cur_light, blind, monsters, objects,
                   feeling_squares, feeling_shown, redraw, cost, when, flow_save,
                   aborted, flow_hist>>

\* monster slot k: unused, or a monster that carries a light and stands on the
\* cell of column k in the row south of the player's
WalkMonster(k, alive) ==
    IF alive
    THEN [race |-> "normal", fy |-> WalkRow + 1, fx |-> k, has_light |-> TRUE, asleep |-> TRUE]
    ELSE NoMonster

InitWalk ==
    /\ FreshRest
    /\ flow_save = 0
    /\ \E ws \in WallPairs : feat = Layout(ws, "GRANITE")
    /\ \E alive \in [1 .. MaxMonsters -> BOOLEAN] :
          /\ monsters = [k \in 1 .. MaxMonsters |-> WalkMonster(k, alive[k])]
          /\ \A k \in 1 .. MaxMonsters :
                alive[k] => square_isprojectable(feat, WalkRow + 1, k)
    /\ \E e \in 0 .. Width :
          info = [c \in Cells |-> IF c \in GlowFrom(e) THEN {"GLOW"} ELSE {}]
    /\ py = WalkRow /\ px = 0
    /\ square_isprojectable(feat, py, px)
    /\ cur_light \in 0 .. MaxLight
    /\ blind = FALSE
    /\ objects = <<>>
    /\ feat_count = CountFeat(feat)

NextWalk == update_view \/ step_east

SpecWalk == InitWalk /\ [][NextWalk]_vars

\* C21: after update_view the cells for which a redraw was requested are exactly
\* the cells whose SEEN flag differs from what it was when the call started
C21_RedrawOnChange ==
    ViewDone =>
        redraw = {c \in Cells : ("SEEN" \in info[c]) # ("SEEN" \in rt.info[c])}

\* a call after a step of the player: a cell became seen, a cell is no longer
\* seen, and a cell that stayed seen has no redraw request
C21_Witness ==
    /\ ViewDone
    /\ \E c \in redraw : "SEEN" \in info[c] /\ "SEEN" \notin rt.info[c]
    /\ \E c \in redraw : "SEEN" \notin info[c] /\ "SEEN" \in rt.info[c]
    /\ \E c \in Cells \ redraw : "SEEN" \in info[c] /\ "SEEN" \in rt.info[c]

\* the flags when the scan of the call starts: the monster lights and the
\* player's grid are marked
PreScanInfo ==
    player_grid(add_monster_lights(mark_wasseen(rt.info), feat, monsters, py, px),
                py, px, view_radius(cur_light))

\* the cells the scan of the call marked VIEW
ScanViewed == Flagged(ScanInfo, "VIEW") \ Flagged(PreScanInfo, "VIEW")

C23_ViewIsLos ==
    ViewDone =>
        \A c \in Cells :
            ~square_iswall(feat, c[1], c[2]) =>
                ("VIEW" \in info[c] <=>
                    /\ distance(c[1], c[2], py, px) <= MAX_SIGHT
                    /\ los(feat, py, px, c[1], c[2]))

\* after a step of the player: a floor cell within MAX_SIGHT hidden by the wall, a
\* floor cell in line of sight and too far, and the cell of a monster with a
\* light in view
C23_Witness ==
    /\ ViewDone /\ px > 0
    /\ \E c \in Cells :
          /\ ~square_iswall(feat, c[1], c[2]) /\ "VIEW" \notin info[c]
          /\ distance(c[1], c[2], py, px) <= MAX_SIGHT
    /\ \E c \in Cells :
          /\ ~square_iswall(feat, c[1], c[2]) /\ "VIEW" \notin info[c]
          /\ los(feat, py, px, c[1], c[2])
    /\ \E k \in DOMAIN monsters :
          /\ monsters[k].race # "none"
          /\ "VIEW" \in info[<<monsters[k].fy, monsters[k].fx>>]

\* the cell one step from c towards the player, along each axis where they differ
TowardPlayer(c) == <<Toward(c[1], py), Toward(c[2], px)>>

\* the wall cells within MAX_SIGHT of the player
NearWalls ==
    {c \in Cells : square_iswall(feat, c[1], c[2]) /\ distance(c[1], c[2], py, px) <= MAX_SIGHT}

\* C24: after update_view, a wall cell within MAX_SIGHT whose neighbour towards
\* the player is not a wall and is in the player's line of sight has VIEW; when
\* that neighbour is a wall, the wall cell has VIEW exactly when the player has
\* line of sight to the wall cell itself
C24_WallFace ==
    ViewDone =>
        \A c \in NearWalls :
            /\ (/\ ~square_iswall(feat, TowardPlayer(c)[1], TowardPlayer(c)[2])
                /\ los(feat, py, px, TowardPlayer(c)[1], TowardPlayer(c)[2]))
                   => "VIEW" \in info[c]
            /\ square_iswall(feat, TowardPlayer(c)[1], TowardPlayer(c)[2])
                   => ("VIEW" \in info[c] <=> los(feat, py, px, c[1], c[2]))

\* a wall two cells thick seen from the front: the near face is in view through
\* the floor cell before it, and the far face is not in view, though the near
\* face is in line of sight
C24_Witness ==
    /\ ViewDone
    /\ \E c \in NearWalls :
          /\ square_iswall(feat, TowardPlayer(c)[1], TowardPlayer(c)[2])
          /\ los(feat, py, px, TowardPlayer(c)[1], TowardPlayer(c)[2])
          /\ TowardPlayer(c) \in NearWalls
          /\ ~square_iswall(feat, TowardPlayer(TowardPlayer(c))[1], TowardPlayer(TowardPlayer(c))[2])
          /\ "VIEW" \in info[TowardPlayer(c)]
          /\ "VIEW" \notin info[c]

\* a monster that carries a light stands within one cell of the player
LightNextToPlayer ==
    \E k \in DOMAIN monsters :
        /\ monsters[k].race # "none" /\ monsters[k].has_light
        /\ ABS(monsters[k].fy - py) <= 1 /\ ABS(monsters[k].fx - px) <= 1

\* C25: after update_view the player's cell has VIEW; with the player not blind
\* it has SEEN if the torch radius is above 0 or the cell has GLOW, and, with no
\* light-carrying monster within one cell, it has no SEEN otherwise
C25_PlayerGrid ==
    ViewDone =>
        /\ "VIEW" \in info[<<py, px>>]
        /\ (~blind /\ (cur_light > 0 \/ "GLOW" \in info[<<py, px>>]))
               => "SEEN" \in info[<<py, px>>]
        /\ (~blind /\ cur_light = 0 /\ "GLOW" \notin info[<<py, px>>] /\ ~LightNextToPlayer)
               => "SEEN" \notin info[<<py, px>>]

\* no torch, and the player's cell is dark and not seen, while a monster further
\* away lights up its own cell
C25_Witness ==
    /\ ViewDone /\ ~blind /\ cur_light = 0
    /\ "GLOW" \notin info[<<py, px>>] /\ ~LightNextToPlayer
    /\ "VIEW" \in info[<<py, px>>] /\ "SEEN" \notin info[<<py, px>>]
    /\ \E k \in DOMAIN monsters :
          /\ monsters[k].race # "none"
          /\ "SEEN" \in info[<<monsters[k].fy, monsters[k].fx>>]

(* ------------------------------------------------------------------ *)
(* Room runs: light_room() called on any cell of the level            *)
(* ------------------------------------------------------------------ *)

\* the cells the player has memorized when a run starts: the staircase's row and
\* the rows south of it
MappedCells == {c \in Cells : c[1] >= StairCell[1]}

\* a level as the field-of-view runs start from, with every cell lit already, or
\* the cells from the last column of the room on, or none
InitRoom ==
    /\ FreshRest
    /\ flow_save = 0
    /\ \E ws \in RoomWalls(MaxWalls) :
          feat = [c \in Cells |-> IF c \in ws THEN "GRANITE"
                                  ELSE IF c = StairCell THEN "LESS" ELSE "FLOOR"]
    /\ \E e \in {0, RoomEdge, Width} :
          info = [c \in Cells |-> (IF c \in RoomCells THEN {"ROOM"} ELSE {}) \cup
                                   (IF c \in GlowFrom(e) THEN {"GLOW"} ELSE {}) \cup
                                   (IF c \in MappedCells THEN {"MARK"} ELSE {})]
    /\ \E alive \in [1 .. MaxMonsters -> BOOLEAN] :
          monsters = [k \in 1 .. MaxMonsters |-> MonsterAt(k, alive[k])]
    /\ \E x \in 0 .. Width - 1 :
          /\ square_in_bounds_fully(StairCell[1], x)
          /\ square_isprojectable(feat, StairCell[1], x)
          /\ \A k \in 1 .. MaxMonsters :
                monsters[k].race = "none"
                   \/ <<monsters[k].fy, monsters[k].fx>> # <<StairCell[1], x>>
          /\ py = StairCell[1] /\ px = x
    /\ cur_light \in 0 .. MaxLight
    /\ blind = FALSE
    /\ objects = Pile
    /\ feat_count = CountFeat(feat)

\* one light_room() call per run, on any inner cell of the level
NextRoom ==
    /\ last.op = "none"
    /\ \E o \in {c \in Cells : square_in_bounds_fully(c[1], c[2])}, light \in BOOLEAN :
          light_room(o[1], o[2], light)

SpecRoom == InitRoom /\ [][NextRoom]_vars

Adjacent(c, d) == c # d /\ ABS(c[1] - d[1]) <= 1 /\ ABS(c[2] - d[2]) <= 1

RECURSIVE RoomGrow(_, _, _)
\* the cells with ROOM that a path of 8-neighbour steps reaches from the cells of
\* r, every cell of the path but the last being a projectable cell with ROOM
RoomGrow(r, inf, ft) ==
    IF {d \in Cells : /\ "ROOM" \in inf[d]
                      /\ \E c \in r : square_isprojectable(ft, c[1], c[2]) /\ Adjacent(c, d)}
           \subseteq r
    THEN r
    ELSE RoomGrow(r \cup {d \in Cells :
                              /\ "ROOM" \in inf[d]
                              /\ \E c \in r : square_isprojectable(ft, c[1], c[2]) /\ Adjacent(c, d)},
                  inf, ft)

RoomReach(inf, ft, o) == RoomGrow(IF "ROOM" \in inf[o] THEN {o} ELSE {}, inf, ft)

\* C26: light_room(origin, light) gives GLOW the value light on exactly the cells
\* with ROOM that are reachable from the origin through projectable cells with
\* ROOM, and leaves the GLOW of every other cell as it was
C26_RoomSet ==
    [][(last'.op = "light_room" /\ ~aborted') =>
          \A c \in Cells :
              IF c \in RoomReach(info, feat, last'.a)
              THEN "GLOW" \in info'[c] <=> last'.ret
              ELSE "GLOW" \in info'[c] <=> "GLOW" \in info[c]]_vars

\* light_room(o, TRUE) lit a wall cell of the room and left dark a cell of the
\* room that lies behind the wall
C26_Witness ==
    /\ last.op = "light_room" /\ last.ret /\ rt.phase = "lit"
    /\ rt.pts = RoomReach(rt.info, feat, last.a)
    /\ \E c \in rt.pts : square_iswall(feat, c[1], c[2]) /\ "GLOW" \in info[c]
    /\ \E c \in Cells \ rt.pts :
          /\ "ROOM" \in info[c] /\ square_isprojectable(feat, c[1], c[2])
          /\ "GLOW" \notin info[c]

\* the cells the light_room() call that last is the end of collected
Collected == Points(room_points(info, feat, last.a[1], last.a[2]))

\* C27: light_room(o, FALSE) leaves no GLOW on a collected cell, and a cell that
\* had MARK keeps it when its terrain is interesting or it is not collected;
\* light_room(o, TRUE) leaves MARK on every cell that had it
C27_MarkKept ==
    [][(last'.op = "light_room" /\ ~aborted') =>
          /\ ~last'.ret =>
                 \A c \in Points(room_points(info, feat, last'.a[1], last'.a[2])) :
                     "GLOW" \notin info'[c]
          /\ \A c \in Cells :
                 (/\ "MARK" \in info[c]
                  /\ \/ last'.ret
                     \/ square_isinteresting(feat, c[1], c[2])
                     \/ c \notin Points(room_points(info, feat, last'.a[1], last'.a[2])))
                     => "MARK" \in info'[c]]_vars

\* light_room(o, FALSE) darkened the room: the staircase is still memorized, a
\* floor cell of the room that was memorized is forgotten, and so is no cell
\* outside the room
C27_Witness ==
    /\ last.op = "light_room" /\ ~last.ret /\ ~aborted
    /\ StairCell \in Collected /\ square_isinteresting(feat, StairCell[1], StairCell[2])
    /\ "MARK" \in info[StairCell] /\ "GLOW" \notin info[StairCell]
    /\ \E c \in Collected \cap MappedCells : "MARK" \notin info[c]
    /\ \A c \in MappedCells \ Collected : "MARK" \in info[c]

(* ------------------------------------------------------------------ *)
(* Flow runs on a level that carries the stamps of earlier calls      *)
(* ------------------------------------------------------------------ *)

\* the time-stamps earlier calls left, the counter being fs: none in column 0, a
\* stamp from before the last restart of the counter in the columns left of e,
\* the stamp of the call before in the others
StaleWhen(e, fs) ==
    [c \in Cells |-> IF c[2] = 0 THEN 0
                     ELSE IF c[2] < e THEN 128 - WrapLead
                     ELSE fs - 1]

\* every stamped cell has some cost below MONSTER_FLOW_DEPTH
StaleCost(w) == [c \in Cells |-> IF w[c] = 0 THEN 0 ELSE MONSTER_FLOW_DEPTH - 1]

InitCycle ==
    /\ info = [c \in Cells |-> {}]
    /\ feeling_squares = 0
    /\ feeling_shown = 0
    /\ redraw = {}
    /\ last = NoOp
    /\ rt = NoRoundTrip
    /\ aborted = FALSE
    /\ flow_hist = NoFlowHist
    /\ \E ws \in WallSets(MaxWalls) : feat = Layout(ws, "GRANITE")
    /\ flow_save \in (255 - WrapLead) .. 255
    /\ \E e \in 1 .. Width : when = StaleWhen(e, flow_save)
    /\ cost = StaleCost(when)
    /\ \E y \in 0 .. Height - 1, x \in 0 .. Width - 1 :
          /\ square_in_bounds_fully(y, x)
          /\ "NO_FLOW" \notin f_info[feat[<<y, x>>]]
          /\ py = y /\ px = x
    /\ cur_light = 0
    /\ blind = FALSE
    /\ monsters = <<>>
    /\ objects = <<>>
    /\ feat_count = CountFeat(feat)

SpecCycle == InitCycle /\ [][NextFlow]_vars

\* C28: the cave_update_flow call made with the counter at 255 restarts the
\* counter at 128 and leaves, on every cell it does not reach, 0 for a stamp
\* below 128 and w - 128 for a stamp w >= 128; every other call adds 1 to the
\* counter and changes the stamp of no cell that it does not reach
C28_Rebase ==
    [][(last'.op = "cave_update_flow" /\ flow_hist'.calls = flow_hist.calls + 1) =>
          IF flow_save = 255
          THEN /\ flow_save' = 128
               /\ \A c \in Cells :
                      when'[c] # 128 =>
                          when'[c] = (IF when[c] >= 128 THEN when[c] - 128 ELSE 0)
          ELSE /\ flow_save' = flow_save + 1
               /\ \A c \in Cells : when'[c] # flow_save' => when'[c] = when[c]]_vars

\* the first call of a run restarted the counter: a cell out of reach keeps the
\* stamp 254 as 126, and a cell out of reach that had an older stamp has none
C28_Witness ==
    /\ last.op = "cave_update_flow"
    /\ flow_hist.calls = 1 /\ flow_hist.wrapped /\ flow_save = 128
    /\ \E c \in Cells : when[c] = 126
    /\ \E c \in Cells : c[2] > 0 /\ when[c] = 0
    /\ \E c \in Cells : c # <<py, px>> /\ when[c] = 128

\* the neighbours of c that the flow may enter
OpenNeighbours(c) == {d \in Cells : Adjacent(c, d) /\ "NO_FLOW" \notin f_info[feat[d]]}

\* every neighbour of c that the flow may enter carries the current generation
Expanded(c) == OpenNeighbours(c) \subseteq Stamped

\* C29 as stated: after cave_update_flow every stamped cell with a cost below
\* MONSTER_FLOW_DEPTH has been expanded to its neighbours, and no cell is stamped
\* with a cost above MONSTER_FLOW_DEPTH
C29_ExpandToDepth ==
    last.op = "cave_update_flow" =>
        \A c \in Stamped :
            /\ cost[c] <= MONSTER_FLOW_DEPTH
            /\ cost[c] < MONSTER_FLOW_DEPTH => Expanded(c)

\* C29 amended: after cave_update_flow every stamped cell with a cost below
\* MONSTER_FLOW_DEPTH - 1 has been expanded to its neighbours, and no cell is
\* stamped with a cost above MONSTER_FLOW_DEPTH - 1
C29_ExpandBelowDepth ==
    last.op = "cave_update_flow" =>
        \A c \in Stamped :
            /\ cost[c] <= MONSTER_FLOW_DEPTH - 1
            /\ cost[c] < MONSTER_FLOW_DEPTH - 1 => Expanded(c)

\* a cell stamped with the cost MONSTER_FLOW_DEPTH - 1 where the expansion
\* stopped, next to a cell that the flow may enter and did not reach, and a
\* cell of cost MONSTER_FLOW_DEPTH - 2 that was expanded
C29_Witness ==
    /\ last.op = "cave_update_flow"
    /\ \E c \in Stamped : cost[c] = MONSTER_FLOW_DEPTH - 1 /\ ~Expanded(c)
    /\ \E c \in Stamped : /\ cost[c] = MONSTER_FLOW_DEPTH - 2 /\ c # <<py, px>>
                            /\ Expanded(c)

RECURSIVE WithinFrom(_, _)
\* the cells that k steps or fewer reach from the cells of r, a step going to one
\* of the eight neighbours that the flow may enter
WithinFrom(r, k) ==
    IF k = 0 THEN r
    ELSE WithinFrom(r \cup UNION {OpenNeighbours(c) : c \in r}, k - 1)

\* the cells that k steps or fewer reach from the player's cell
Within(k) == WithinFrom({<<py, px>>}, k)

\* C30: after cave_update_flow (the queue never overflows at this size) the cells
\* that carry the current generation are the player's cell and the cells that
\* fewer than MONSTER_FLOW_DEPTH steps through cells without flow-blocking
\* terrain reach from it; the cost of each is the least number of such steps,
\* and no flow-blocking cell other than the player's is stamped
C30_ShortestPaths ==
    last.op = "cave_update_flow" =>
        /\ Stamped = Within(MONSTER_FLOW_DEPTH - 1)
        /\ \A k \in 0 .. MONSTER_FLOW_DEPTH - 1 : {c \in Stamped : cost[c] <= k} = Within(k)
        /\ \A c \in Stamped \ {<<py, px>>} : "NO_FLOW" \notin f_info[feat[c]]

\* a wall in the way: an open cell nearer than MONSTER_FLOW_DEPTH as the crow
\* flies is out of reach and keeps an older stamp, and the wall next to a
\* stamped cell is not stamped
C30_Witness ==
    /\ last.op = "cave_update_flow"
    /\ \E c \in Cells \ Stamped :
          /\ "NO_FLOW" \notin f_info[feat[c]]
          /\ Chebyshev(c, <<py, px>>) < MONSTER_FLOW_DEPTH
          /\ when[c] # 0
    /\ \E c \in Stamped, d \in Cells \ Stamped :
          Adjacent(c, d) /\ "NO_FLOW" \in f_info[feat[d]] /\ cost[c] < MONSTER_FLOW_DEPTH - 1

(* ------------------------------------------------------------------ *)
(* What an overflow of the queue forgets                              *)
(* ------------------------------------------------------------------ *)

\* the entries that wait in the ring, from head to tail
Waiting(st, cap) == {st.q[(st.head + i) % cap] : i \in 0 .. Occupancy(st, cap) - 1}

\* one child of the step: bt.st is the queue before flow_child() and st2 the
\* queue after it; a child that was stamped is in the queue if the ring holds
\* one entry more than before, and was forgotten otherwise
batch_child(bt, st2, c, flow_n, cap) ==
    IF ~square_in_bounds(c[1], c[2]) \/ bt.st.when[c] = flow_n \/ st2.when[c] # flow_n
    THEN [bt EXCEPT !.st = st2]
    ELSE IF Occupancy(st2, cap) = Occupancy(bt.st, cap) + 1
         THEN [bt EXCEPT !.st = st2, !.batch = @ \cup {c}]
         ELSE [bt EXCEPT !.st = st2, !.drop = @ \cup {c}]

RECURSIVE batch_children(_, _, _, _, _, _, _, _)
\* the eight children of the dequeued cell ty,tx, one flow_child() at a time
batch_children(bt, ft, flow_n, ty, tx, n, d, cap) ==
    IF d > 8 THEN bt
    ELSE batch_children(
            batch_child(bt,
                        flow_child(bt.st, ft, flow_n, ty + ddy_ddd[d], tx + ddx_ddd[d], n, cap),
                        <<ty + ddy_ddd[d], tx + ddx_ddd[d]>>, flow_n, cap),
            ft, flow_n, ty, tx, n, d + 1, cap)

\* the end of a step: a step that forgot a child is an overflow step, and its
\* children that were queued and the entries that waited before it are kept apart
batch_close(bt, before) ==
    IF bt.drop = {}
    THEN [bt EXCEPT !.batch = {}]
    ELSE [bt EXCEPT !.lost = @ \cup bt.drop, !.kept = @ \cup bt.batch,
                    !.prior = @ \cup before, !.batch = {}, !.drop = {}]

\* the entry at the head is taken and counts as processed
batch_dequeue(bt, cap) ==
    [bt EXCEPT !.st = flow_dequeue(bt.st, cap), !.expanded = @ \cup {bt.st.q[bt.st.head]}]

RECURSIVE batch_loop(_, _, _, _)
\* the loop of flow_loop(), step by step
batch_loop(bt, ft, flow_n, cap) ==
    IF bt.st.head = bt.st.tail THEN bt
    ELSE IF bt.st.cost[bt.st.q[bt.st.head]] + 1 = MONSTER_FLOW_DEPTH
         THEN batch_loop(batch_dequeue(bt, cap), ft, flow_n, cap)
         ELSE batch_loop(
                 batch_close(batch_children(batch_dequeue(bt, cap), ft, flow_n,
                                            bt.st.q[bt.st.head][1], bt.st.q[bt.st.head][2],
                                            bt.st.cost[bt.st.q[bt.st.head]] + 1, 1, cap),
                             Waiting(flow_dequeue(bt.st, cap), cap)),
                 ft, flow_n, cap)

\* a whole call with a queue of cap entries, with its overflow steps recorded
batch_flow(ft, c0, w0, fs, y, x, cap) ==
    batch_loop([st |-> flow_start(flow_cycle(w0, fs), c0, y, x),
                batch |-> {}, drop |-> {}, lost |-> {}, kept |-> {}, prior |-> {},
                expanded |-> {}],
               ft, flow_cycle(w0, fs).flow_save, cap)

\* the record of the call that a step of cave_update_flow_cap() makes
CallBatch == batch_flow(feat, cost, when, flow_save, py, px, last'.a[1])

\* C31 as stated: in a step whose enqueue would overflow the whole batch of the
\* step's children is dropped, so that no child of that step is processed
\* later, and the entries that waited before the step are all processed
C31_BatchDropped ==
    [][last'.op = "cave_update_flow" =>
          \E bt \in {CallBatch} :
              /\ bt.kept \cap bt.expanded = {}
              /\ bt.lost \cap bt.expanded = {}
              /\ bt.prior \subseteq bt.expanded]_vars

\* C31, amended: only the child whose enqueue would overflow is forgotten and
\* never processed; the children of that step queued before it and the entries
\* that waited before the step are all processed
C31_EntryDropped ==
    [][last'.op = "cave_update_flow" =>
          \E bt \in {CallBatch} :
              /\ bt.lost \cap bt.expanded = {}
              /\ bt.kept \subseteq bt.expanded
              /\ bt.prior \subseteq bt.expanded]_vars

\* the first call on an untouched level had a step that queued one child, forgot
\* the next, and began with entries waiting; the queued child was processed
C31_Witness ==
    /\ last.op = "cave_update_flow"
    /\ flow_hist.calls = 1 /\ flow_save = 1
    /\ \E bt \in {batch_flow(feat, [c \in Cells |-> 0], [c \in Cells |-> 0], 0,
                             py, px, last.a[1])} :
          /\ bt.lost # {} /\ bt.prior # {}
          /\ bt.kept \cap bt.expanded # {}
          /\ bt.lost \cap bt.expanded = {}

(* ------------------------------------------------------------------ *)
(* The fixed-point arithmetic of los()                                *)
(* ------------------------------------------------------------------ *)

\* "overflow may occur if dx and dy exceed 90"
LOS_SAFE_DELTA == 90

\* the range of a (short) int
SHRT_MIN == -32768
SHRT_MAX == 32767

\* f2, f1, the slope m and the fraction before the loop, al being the offset
\* along the longer axis and as the offset along the shorter one; with slope 1
\* the fraction starts at "qy -= f1"
los_scale(al, as) ==
    [f2 |-> al * as,
     f1 |-> (al * as) * 2,
     sq |-> as * as,
     m  |-> (as * as) * 2,
     q  |-> IF as * as = al * as THEN as * as - (al * as) * 2 ELSE as * as]

\* mutant: the fraction is never taken back
los_fraction_nowrap(q, m, f1, f2) == <<q + m, q + m>>

\* one turn of the while loop of either walk with no tile blocking: the
\* fraction after "qy += m", and after "qy -= f1" where the line enters or
\* meets the next row
los_fraction(q, m, f1, f2) == <<q + m, IF q + m < f2 THEN q + m ELSE q + m - f1>>

\* los() is called for a target at the offset dy,dx on a level wide enough:
\* adjacent grids and lines along a row or a column compute nothing; otherwise
\* the scale factors are computed and the walk has al - 1 tiles to go
los_arith_begin(dy, dx) ==
    /\ last.op = "none"
    /\ IF (ABS(dx) < 2 /\ ABS(dy) < 2) \/ dx = 0 \/ dy = 0
       THEN last' = [op |-> "los_arith", a |-> <<ABS(dy), ABS(dx)>>, b |-> <<0, 0, 0>>,
                     ret |-> TRUE]
       ELSE \E al \in {IF ABS(dx) >= ABS(dy) THEN ABS(dx) ELSE ABS(dy)},
               as \in {IF ABS(dx) >= ABS(dy) THEN ABS(dy) ELSE ABS(dx)} :
                last' = [op |-> "los_arith", a |-> <<ABS(dy), ABS(dx)>>,
                         b |-> <<los_scale(al, as).sq, los_scale(al, as).q, al - 1>>,
                         ret |-> FALSE]
    /\ UNCHANGED <<feat, feat_count, info, py, px, cur_light, blind, monsters, objects,
                   feeling_squares, feeling_shown, redraw, cost, when, flow_save,
                   rt, aborted, flow_hist>>

\* the scale factors of the call in progress
ArithScale ==
    IF last.a[2] >= last.a[1] THEN los_scale(last.a[2], last.a[1])
                              ELSE los_scale(last.a[1], last.a[2])

\* one turn of the loop: last.b holds the fraction after the addition, the
\* fraction at the end of the turn and the number of tiles left
los_arith_step ==
    /\ last.op = "los_arith"
    /\ last.b[3] > 0
    /\ \E sc \in {ArithScale} :
         \E qq \in {los_fraction(last.b[2], sc.m, sc.f1, sc.f2)} :
            last' = [last EXCEPT !.b = <<qq[1], qq[2], last.b[3] - 1>>,
                                 !.ret = last.b[3] = 1]
    /\ UNCHANGED <<feat, feat_count, info, py, px, cur_light, blind, monsters, objects,
                   feeling_squares, feeling_shown, redraw, cost, when, flow_save,
                   rt, aborted, flow_hist>>

InitArith ==
    /\ FreshLevel
    /\ feat = Layout({}, "GRANITE")
    /\ flow_save = 0
    /\ py = 1 /\ px = 1
    /\ cur_light = 0
    /\ blind = FALSE
    /\ monsters = <<>>
    /\ objects = <<>>
    /\ feat_count = CountFeat(feat)

LosArithCall ==
    /\ last.op = "none"
    /\ \E dy \in -LOS_SAFE_DELTA .. LOS_SAFE_DELTA, dx \in -LOS_SAFE_DELTA .. LOS_SAFE_DELTA :
          los_arith_begin(dy, dx)

NextArith == LosArithCall \/ los_arith_step

SpecArith == InitArith /\ [][NextArith]_vars

\* v is a value of a signed 16-bit integer
FitsShort(v) == SHRT_MIN <= v /\ v <= SHRT_MAX

\* C32: in a los() call with neither offset above 90, f2, f1, m and the
\* fraction qx or qy, after the addition and at the end of every turn of the
\* walk, are values of a signed 16-bit integer
C32_NoOverflow ==
    (last.op = "los_arith" /\ last.a[1] > 0 /\ last.a[2] > 0) =>
        /\ FitsShort(ArithScale.f2) /\ FitsShort(ArithScale.f1)
        /\ FitsShort(ArithScale.sq) /\ FitsShort(ArithScale.m)
        /\ FitsShort(last.b[1]) /\ FitsShort(last.b[2])

\* a turn of the walk for the offset 90,89 in which the fraction is above 20000
\* after the addition and is taken back by f1
C32_Witness ==
    /\ last.op = "los_arith"
    /\ last.a = <<LOS_SAFE_DELTA, LOS_SAFE_DELTA - 1>>
    /\ last.b[1] > 20000 /\ last.b[2] = last.b[1] - ArithScale.f1

(* ------------------------------------------------------------------ *)
(* The grids los() examines                                           *)
(* ------------------------------------------------------------------ *)

RECURSIVE los_path_x(_, _, _, _, _, _, _, _, _)
\* "Travel horizontally": the grids the while (x2 - tx) loop examines, in
\* order, when none of them blocks
los_path_x(ty, tx, qy, x2, sx, sy, m, f1, f2) ==
    IF x2 - tx = 0 THEN <<>>
    ELSE IF qy + m < f2
         THEN <<(<<ty, tx>>)>> \o los_path_x(ty, tx + sx, qy + m, x2, sx, sy, m, f1, f2)
         ELSE IF qy + m > f2
              THEN <<(<<ty, tx>>), (<<ty + sy, tx>>)>>
                   \o los_path_x(ty + sy, tx + sx, qy + m - f1, x2, sx, sy, m, f1, f2)
              ELSE <<(<<ty, tx>>)>>
                   \o los_path_x(ty + sy, tx + sx, qy + m - f1, x2, sx, sy, m, f1, f2)

RECURSIVE los_path_y(_, _, _, _, _, _, _, _, _)
\* "Travel vertically": the grids the while (y2 - ty) loop examines
los_path_y(ty, tx, qx, y2, sx, sy, m, f1, f2) ==
    IF y2 - ty = 0 THEN <<>>
    ELSE IF qx + m < f2
         THEN <<(<<ty, tx>>)>> \o los_path_y(ty + sy, tx, qx + m, y2, sx, sy, m, f1, f2)
         ELSE IF qx + m > f2
              THEN <<(<<ty, tx>>), (<<ty, tx + sx>>)>>
                   \o los_path_y(ty + sy, tx + sx, qx + m - f1, y2, sx, sy, m, f1, f2)
              ELSE <<(<<ty, tx>>)>>
                   \o los_path_y(ty + sy, tx + sx, qx + m - f1, y2, sx, sy, m, f1, f2)

\* the grids the walk along the longer axis examines when none blocks
los_path_walk(y1, x1, y2, x2) ==
    LET dy == y2 - y1
        dx == x2 - x1
        ay == ABS(dy)
        ax == ABS(dx)
        sx == IF dx < 0 THEN -1 ELSE 1
        sy == IF dy < 0 THEN -1 ELSE 1
        f2 == ax * ay
        f1 == f2 * 2
    IN  IF ax >= ay
        THEN IF ay * ay = f2
             THEN los_path_x(y1 + sy, x1 + sx, ay * ay - f1, x2, sx, sy, (ay * ay) * 2, f1, f2)
             ELSE los_path_x(y1, x1 + sx, ay * ay, x2, sx, sy, (ay * ay) * 2, f1, f2)
        ELSE IF ax * ax = f2
             THEN los_path_y(y1 + sy, x1 + sx, ax * ax - f1, y2, sx, sy, (ax * ax) * 2, f1, f2)
             ELSE los_path_y(y1 + sy, x1, ax * ax, y2, sx, sy, (ax * ax) * 2, f1, f2)

\* the grids the loops along a column or a row examine when none blocks
los_path_orth(y1, x1, y2, x2) ==
    IF x2 = x1
    THEN IF y2 > y1
         THEN [i \in 1 .. (y2 - y1 - 1) |-> <<y1 + i, x1>>]
         ELSE [i \in 1 .. (y1 - y2 - 1) |-> <<y1 - i, x1>>]
    ELSE IF x2 > x1
         THEN [i \in 1 .. (x2 - x1 - 1) |-> <<y1, x1 + i>>]
         ELSE [i \in 1 .. (x1 - x2 - 1) |-> <<y1, x1 - i>>]

\* the grid the "knights" rule examines, if it examines one
los_path_knight(y1, x1, y2, x2) ==
    IF ABS(x2 - x1) = 1
    THEN IF ABS(y2 - y1) = 2
         THEN <<(<<y1 + (IF y2 < y1 THEN -1 ELSE 1), x1>>)>>
         ELSE <<>>
    ELSE IF ABS(y2 - y1) = 1 /\ ABS(x2 - x1) = 2
         THEN <<(<<y1, x1 + (IF x2 < x1 THEN -1 ELSE 1)>>)>>
         ELSE <<>>

\* a grid that an examination runs into: out of the level, or not projectable
Blocks(ft, c) == ~square_in_bounds(c[1], c[2]) \/ ~square_isprojectable(ft, c[1], c[2])

\* the grids of the path p that are examined: those up to the first that blocks
ReadUntilBlocked(ft, p) ==
    {p[i] : i \in {j \in 1 .. Len(p) : \A k \in 1 .. j - 1 : ~Blocks(ft, p[k])}}

\* the grids whose terrain a los() call examines
los_reads(ft, y1, x1, y2, x2) ==
    IF ABS(x2 - x1) < 2 /\ ABS(y2 - y1) < 2 THEN {}
    ELSE IF x2 = x1 \/ y2 = y1
         THEN ReadUntilBlocked(ft, los_path_orth(y1, x1, y2, x2))
         ELSE IF los_knight(ft, y1, x1, y2, x2)
              THEN ReadUntilBlocked(ft, los_path_knight(y1, x1, y2, x2))
              ELSE ReadUntilBlocked(ft, los_path_knight(y1, x1, y2, x2)
                                        \o los_path_walk(y1, x1, y2, x2))

\* the cells of the smallest rectangle that holds a and b
Rectangle(a, b) ==
    {c \in Cells : /\ (a[1] <= c[1] /\ c[1] <= b[1]) \/ (b[1] <= c[1] /\ c[1] <= a[1])
                   /\ (a[2] <= c[2] /\ c[2] <= b[2]) \/ (b[2] <= c[2] /\ c[2] <= a[2])}

\* the terrain with the cells of cs changed from projectable to wall and back
Toggled(ft, cs) ==
    [c \in Cells |-> IF c \in cs
                     THEN IF "PROJECT" \in f_info[ft[c]] THEN "GRANITE" ELSE "FLOOR"
                     ELSE ft[c]]

\* C33: the grids los(A,B) examines are cells of the level inside the rectangle
\* of A and B, and neither A nor B; the call returns FALSE exactly when one of
\* them blocks, and returns the same with other terrain on A, on B or on both
C33_ReadsBetween ==
    last.op = "los" =>
        \E rd \in {los_reads(feat, last.a[1], last.a[2], last.b[1], last.b[2])} :
            /\ rd \subseteq Rectangle(last.a, last.b) \ {last.a, last.b}
            /\ last.ret = (\A c \in rd : ~Blocks(feat, c))
            /\ \A cs \in {{last.a}, {last.b}, {last.a, last.b}} :
                  los(Toggled(feat, cs), last.a[1], last.a[2], last.b[1], last.b[2]) = last.ret

\* a call from a wall on one edge of the level to the opposite edge, along
\* neither a row, a column nor a diagonal: it examines four grids or more,
\* none blocks, and it returns TRUE
C33_Witness ==
    /\ last.op = "los"
    /\ Blocks(feat, last.a)
    /\ DY(last.a, last.b) = Height - 1 /\ DX(last.a, last.b) \notin {0, Height - 1}
    /\ last.ret
    /\ Cardinality(los_reads(feat, last.a[1], last.a[2], last.b[1], last.b[2])) >= 4

(* ------------------------------------------------------------------ *)
(* What forget_view() changes                                         *)
(* ------------------------------------------------------------------ *)

\* C34: after forget_view no cell has VIEW or SEEN, the cells redrawn are the
\* cells that had VIEW, and the other flags of every cell are as before
C34_ForgetView ==
    [][last'.op = "forget_view" =>
          /\ \A c \in Cells : "VIEW" \notin info'[c] /\ "SEEN" \notin info'[c]
          /\ redraw' = {c \in Cells : "VIEW" \in info[c]}
          /\ \A c \in Cells : info'[c] \ {"VIEW", "SEEN"} = info[c] \ {"VIEW", "SEEN"}]_vars

\* forget_view has redrawn a cell that keeps MARK and GLOW and a cell that
\* keeps FEEL, and has left alone a cell with FEEL that was not in view
C34_Witness ==
    /\ last.op = "forget_view"
    /\ \E c \in redraw : "MARK" \in info[c] /\ "GLOW" \in info[c]
    /\ \E c \in redraw : "FEEL" \in info[c]
    /\ \E c \in Cells \ redraw : "FEEL" \in info[c]
    /\ \A c \in Cells : "VIEW" \notin info[c] /\ "SEEN" \notin info[c]

\* the cells strictly between a and b on their diagonal
Diagonal(a, b) ==
    {c \in Rectangle(a, b) \ {a, b} : DY(a, c) = DX(a, c)}

\* C35: on an exact diagonal of length 2 or more, los(A,B) is TRUE exactly when
\* every cell strictly between A and B on the diagonal is projectable, and no
\* cell off the diagonal is examined
C35_Diagonal ==
    (last.op = "los" /\ DX(last.a, last.b) = DY(last.a, last.b) /\ DX(last.a, last.b) >= 2) =>
        /\ last.ret = (\A c \in Diagonal(last.a, last.b) : square_isprojectable(feat, c[1], c[2]))
        /\ los_reads(feat, last.a[1], last.a[2], last.b[1], last.b[2])
              \subseteq Diagonal(last.a, last.b)

\* a diagonal of length 3 or more with nothing on it and a wall beside its
\* first step, on the corner the line passes: the call returns TRUE and
\* examines every cell between the ends
C35_Witness ==
    /\ last.op = "los"
    /\ DX(last.a, last.b) = DY(last.a, last.b) /\ DX(last.a, last.b) >= 3
    /\ last.ret
    /\ los_reads(feat, last.a[1], last.a[2], last.b[1], last.b[2]) = Diagonal(last.a, last.b)
    /\ \E c \in Diagonal(last.a, last.b) :
          /\ Adjacent(c, last.a)
          /\ square_iswall(feat, c[1], last.a[2]) \/ square_iswall(feat, last.a[1], c[2])

(* ------------------------------------------------------------------ *)
(* Flow calls while the player walks                                  *)
(* ------------------------------------------------------------------ *)

NextTrack == cave_update_flow \/ cave_forget_flow \/ step_east

\* a fresh level; the player walks east between the calls, so that a call
\* leaves behind stamps of earlier calls
SpecTrack == InitFlow /\ [][NextTrack]_vars

\* the counter and the stamps as "Cycle the flow" would leave them if a call
\* began now
CycledNow == flow_cycle(when, flow_save)

\* C36: between calls the generation counter is in 0..255 and no stamp is
\* above it, so that at the start of a BFS, after the counter has moved on or
\* restarted at 128, no cell carries the new generation number
C36_StampsBehind ==
    /\ flow_save \in 0 .. 255
    /\ \A c \in Cells : when[c] <= flow_save
    /\ \A c \in Cells : CycledNow.when[c] < CycledNow.flow_save

\* the counter has restarted: stamps of the call before the restart are left at
\* 127 beside the stamps of the new generation 128
C36_Witness ==
    /\ last.op = "cave_update_flow"
    /\ flow_hist.wrapped /\ flow_save = 128
    /\ \E c \in Cells : when[c] = 127
    /\ \E c \in Cells : when[c] = 128 /\ cost[c] > 0

(* ------------------------------------------------------------------ *)
(* update_view() called twice                                         *)
(* ------------------------------------------------------------------ *)

\* the flags of inf that update_view() computes or consumes
ViewFlags(inf) == [c \in Cells |-> inf[c] \cap {"VIEW", "SEEN", "MARK", "FEEL"}]

\* C37: an update_view call that follows an update_view call, nothing else
\* having changed, leaves VIEW, SEEN, MARK and FEEL of every cell as they were,
\* redraws no cell, marks no object and leaves the feeling counter alone
C37_Idempotent ==
    [][(last.op = "update_view" /\ last'.op = "update_view") =>
          /\ ViewFlags(info') = ViewFlags(info)
          /\ redraw' = {}
          /\ objects' = objects
          /\ feeling_squares' = feeling_squares
          /\ feeling_shown' = feeling_shown]_vars

\* a call that changed nothing although cells are seen and memorized, a cell
\* in view is not seen, feeling triggers were counted and one is still unseen
C37_Witness ==
    /\ ViewDone
    /\ rt.info = info /\ redraw = {}
    /\ rt.o = <<feeling_squares, feeling_shown>>
    /\ feeling_squares > 0
    /\ \E c \in Cells : {"SEEN", "MARK"} \subseteq info[c] /\ c # <<py, px>>
    /\ \E c \in Cells : "VIEW" \in info[c] /\ "SEEN" \notin info[c] /\ "FEEL" \in info[c]
    /\ \E k \in DOMAIN objects : objects[k].marked = "MARK_SEEN"

(* ------------------------------------------------------------------ *)
(* What is memorized when a room has been darkened                    *)
(* ------------------------------------------------------------------ *)

\* the cells that the next light_room() call at o would collect
CollectedAt(o) == Points(room_points(info, feat, o[1], o[2]))

\* C38: when light_room(o, FALSE) has returned, every cell that is SEEN is
\* memorized; a cell that lost MARK is a collected cell with boring terrain
\* that is not SEEN, and no such cell has MARK
C38_SeenIsMarked ==
    [][(last'.op = "light_room" /\ ~last'.ret /\ ~aborted') =>
          /\ \A c \in Cells : "SEEN" \in info'[c] => "MARK" \in info'[c]
          /\ \A c \in Cells :
                ("MARK" \in info[c] /\ "MARK" \notin info'[c]) =>
                    /\ c \in CollectedAt(last'.a)
                    /\ ~square_isinteresting(feat, c[1], c[2])
                    /\ "SEEN" \notin info'[c]
          /\ \A c \in CollectedAt(last'.a) :
                (~square_isinteresting(feat, c[1], c[2]) /\ "SEEN" \notin info'[c])
                    => "MARK" \notin info'[c]]_vars

\* the room was lit and darkened again: of its boring cells one is still seen,
\* by the light of a monster or of the torch, and memorized, and another is in
\* view, no longer seen and forgotten
C38_Witness ==
    /\ RoundTripDone
    /\ \E c \in rt.pts \cap Boring :
          c # <<py, px>> /\ {"SEEN", "MARK"} \subseteq info[c]
    /\ \E c \in rt.pts \cap Boring :
          "VIEW" \in info[c] /\ "SEEN" \notin info[c] /\ "MARK" \notin info[c]

(* ------------------------------------------------------------------ *)
(* light_room() on rooms that reach the edge of the level             *)
(* ------------------------------------------------------------------ *)

\* the cells of the outermost rows and columns
BorderCells == {c \in Cells : ~square_in_bounds_fully(c[1], c[2])}

\* every border cell of the level blocks projections
BorderWalled == \A c \in BorderCells : ~square_isprojectable(feat, c[1], c[2])

\* granite around the level, but for a gap of one floor cell in the top row in
\* some layouts; one granite cell inside, or none; the room flag on the columns
\* left of e, border included; nothing lit, nothing memorized
InitEdge ==
    /\ FreshRest
    /\ flow_save = 0
    /\ \E gap \in {{}} \cup {{c} : c \in {d \in BorderCells : d[1] = 0}},
          w \in {{}} \cup {{c} : c \in (Cells \ BorderCells) \ {StairCell}} :
          feat = Layout((BorderCells \ gap) \cup w, "GRANITE")
    /\ \E e \in 0 .. Width : info = [c \in Cells |-> IF c \in LeftOf(e) THEN {"ROOM"} ELSE {}]
    /\ py = StairCell[1] /\ px = StairCell[2]
    /\ cur_light = 0
    /\ blind = FALSE
    /\ monsters = <<>>
    /\ objects = <<>>
    /\ feat_count = CountFeat(feat)

\* one light_room() call per run, on any cell of the level
NextEdge ==
    /\ last.op = "none"
    /\ \E o \in Cells, light \in BOOLEAN : light_room(o[1], o[2], light)

SpecEdge == InitEdge /\ [][NextEdge]_vars

\* no grid is twice in the sequence p
NoRepeat(p) == \A i \in 1 .. Len(p), j \in 1 .. Len(p) : p[i] = p[j] => i = j

\* C39: on a level whose border cells all block projections, a light_room call
\* from any cell of the level passes no coordinate outside the level to
\* square_isroom, so that no assertion fails; the point set holds no cell
\* twice and holds at most Height * Width cells
C39_FloodInBounds ==
    (last.op = "light_room" /\ BorderWalled) =>
        /\ ~aborted
        /\ \E ps \in {room_points(info, feat, last.a[1], last.a[2])} :
              /\ ~ps.oob
              /\ \A i \in 1 .. Len(ps.pts) : square_in_bounds(ps.pts[i][1], ps.pts[i][2])
              /\ NoRepeat(ps.pts)
              /\ Len(ps.pts) <= Height * Width

\* the room covers the whole walled level and the call starts in a corner of
\* it, or inside it: the corner alone is collected, or every cell of the level
C39_Witness ==
    /\ last.op = "light_room" /\ BorderWalled /\ ~aborted
    /\ \A c \in Cells : "ROOM" \in info[c]
    /\ \/ last.a = <<0, 0>> /\ CollectedAt(last.a) = {last.a}
       \/ last.a = StairCell /\ CollectedAt(last.a) = Cells

\* with a gap in the border the flood does leave the level
C39_GapAborts ==
    /\ last.op = "light_room" /\ ~BorderWalled /\ aborted

(* ------------------------------------------------------------------ *)
(* c->feat_count[] under square_set_feat()                            *)
(* ------------------------------------------------------------------ *)

\* the calls of a run change the first MaxSetCells cells of the top row
MaxSetCells == 4

SetCells == {c \in Cells : c[1] = 0 /\ c[2] < MaxSetCells}

\* cave_new(): every array is mem_zalloc'ed, so every cell has terrain id 0 and
\* every count is 0
InitFeat ==
    /\ FreshLevel
    /\ feat = [c \in Cells |-> "NONE"]
    /\ feat_count = [f \in DOMAIN f_info |-> 0]
    /\ flow_save = 0
    /\ py = 1 /\ px = 1
    /\ cur_light = 0
    /\ blind = FALSE
    /\ monsters = <<>>
    /\ objects = <<>>

\* a square_set_feat() call on a cell of the level, during generation or play
SetFeat ==
    \E c \in SetCells, f \in DOMAIN f_info, cd \in BOOLEAN : square_set_feat(c[1], c[2], f, cd)

SpecFeat == InitFeat /\ [][SetFeat]_vars

\* C40: after any sequence of square_set_feat calls on a new level,
\* feat_count[f] is the number of cells with terrain f for every terrain f
\* other than id 0, and no entry of feat_count is negative
C40_FeatCount ==
    /\ \A f \in DOMAIN f_info \ {"NONE"} :
          feat_count[f] = Cardinality({c \in Cells : feat[c] = f})
    /\ \A f \in DOMAIN f_info : feat_count[f] >= 0

\* a call has put terrain id 0 back on a cell: two other terrains are counted,
\* one of them twice, and the cells with id 0 are not
C40_Witness ==
    /\ last.op = "square_set_feat" /\ last.ret.value = "NONE" /\ ~aborted
    /\ feat_count["GRANITE"] = 2 /\ feat_count["FLOOR"] = 1
    /\ feat_count["NONE"] = 0
    /\ Cardinality({c \in Cells : feat[c] = "NONE"}) = Height * Width - 3

====
